---- MODULE Spec2Model ----
(***************************************************************************)
(* A state-machine model of HEIG: the LD matrix engine (ldmatrix.py), the  *)
(* PLINK .bed parser (parse.py), the summary-statistics pruning pipeline   *)
(* (heig/sumstats.py) and the estimator's input helpers (heri_gc.py).      *)
(* Each component has its own specification; the variables of the other    *)
(* components stay at their idle values.                                   *)
(***************************************************************************)
EXTENDS Integers, Sequences, FiniteSets, TLC

VARIABLES
    ld_state,       \* "new" before LDmatrix.__init__ has returned, then "loaded"
    ld_info,        \* LDmatrix.ld_info: the rows of the info table, in row order
    data,           \* LDmatrix.data: one entry per stored block
    is_truncated,   \* LDmatrix.is_truncated
    block_sizes,    \* LDmatrix.block_sizes
    block_ranges,   \* LDmatrix.block_ranges
    bed_in,         \* the arguments of PlinkBEDFile(fname, n, snp_list) and the file
    bed_state,      \* "new", "ok" once __init__ has returned, "failed" if it raised
    m,              \* PlinkBEDFile.m: the number of SNPs
    n,              \* PlinkBEDFile.n: the number of samples
    nru,            \* PlinkBEDFile.nru: n rounded up to a multiple of 4
    geno,           \* PlinkBEDFile.geno: the bits after the 3-byte header
    _currentSNP,    \* PlinkBEDFile._currentSNP: the read cursor
    returned,       \* the columns the successful nextSNPs calls returned, in order
    yielded,        \* the (index, vector) pairs gen_SNPs yielded when last drained
    args,           \* the arguments of the function a specification applies
    result,         \* what that function returned
    sumstats,       \* a preprocessor GWAS object: snpinfo, beta, se, z
    call            \* the last call made: its operation and its outcome

ldVars == <<ld_state, ld_info, data, is_truncated, block_sizes, block_ranges>>

bedVars == <<bed_in, bed_state, m, n, nru, geno, _currentSNP, returned, yielded>>

fnVars == <<args, result, sumstats>>

vars == <<ldVars, bedVars, fnVars, call>>

----------------------------------------------------------------------------
(* Bounds of the model *)

MaxRows == 3        \* rows of an LD info table on disk
MaxChr == 2         \* chromosomes 1..MaxChr
MaxMergeLen == 1    \* prefixes in the list given to merge
MaxBlocks == 3      \* cap on len(self.data), which failed merges extend
MaxSamples == 5     \* samples of a .bed file
MaxSnps == 2        \* SNPs of a .bed file
MaxCells == 4       \* samples x SNPs of a file whose genotypes vary freely
MaxGwasRows == 2    \* rows of a summary-statistics table
MaxAlleleLen == 2   \* characters of an allele
MaxData == 3        \* values of an effect column
MaxDev == 2         \* distance of an effect from the null value, in quarters
MaxSnpId == 2       \* SNP identifiers 1..MaxSnpId in a SNP list
MaxLists == 3       \* arguments of get_common_snps
MaxFiles == 3       \* LDR GWAS files given to from_rawdata_ldr
MaxEst == 1         \* estimates (rows) given to format_heri / format_gene_cor_y2
MaxScore == 2       \* largest GCV score of a valid bandwidth
MaxResFiles == 2    \* files in the results directory of generate_vtk
MaxResRows == 2     \* rows of a result file
MaxMainLines == 2   \* lines main writes to the log before it returns or raises
MaxBimRows == 3     \* SNPs of the genotype file given to build mode
MaxPos == 3         \* physical positions 1..MaxPos
MaxPartRows == 2    \* rows of the genome partition file
MaxJackBlocks == 4   \* blocks given to _merge_blocks
MaxBlockSize == 2    \* small block sizes 1..MaxBlockSize
MaxBlockDim == 5     \* SNPs of the block given to _extract_by_idxs
MaxLoboBlocks == 3   \* blocks whose estimates are given to _lobo_estimate
MaxBlockEst == 1     \* block-level estimates -MaxBlockEst..MaxBlockEst
MaxTotal == 3        \* total estimates -MaxTotal..MaxTotal
MaxCommonSnps == 3   \* SNPs of the files given to read_process_data

----------------------------------------------------------------------------
(* Generic helpers *)

Range(s) == {s[i] : i \in DOMAIN s}

SeqsUpTo(S, len) == UNION {[1..k -> S] : k \in 0..len}

RECURSIVE SumSeq(_)
SumSeq(s) == IF s = <<>> THEN 0 ELSE Head(s) + SumSeq(Tail(s))

RECURSIVE Unique(_)
\* pd.unique: the distinct values in order of first appearance
Unique(s) ==
    IF s = <<>> THEN <<>>
    ELSE LET u == Unique(SubSeq(s, 1, Len(s) - 1))
             x == s[Len(s)]
         IN IF x \in Range(u) THEN u ELSE Append(u, x)

RECURSIVE SortSet(_)
\* the elements of a finite set of integers in ascending order
SortSet(S) ==
    IF S = {} THEN <<>>
    ELSE LET least == CHOOSE x \in S : \A y \in S : x <= y
         IN <<least>> \o SortSet(S \ {least})

SelectIdx(s, I) ==
    \* the subsequence of s at the positions in I, in order
    LET keep == SortSet(I \cap DOMAIN s)
    IN [k \in 1..Len(keep) |-> s[keep[k]]]

RECURSIVE Flatten(_)
Flatten(ss) == IF ss = <<>> THEN <<>> ELSE Head(ss) \o Flatten(Tail(ss))

Iota(len) == [k \in 1..len |-> k - 1]     \* range(len)

----------------------------------------------------------------------------
(* LD matrices on disk: an info table and the pickled list of blocks.      *)
(* A block is stored as its strict lower triangle in np.tril_indices       *)
(* order, ndim = 1; the correlation of SNPs a and b is the symbolic value   *)
(* <<a, b>>.  A truncated block is dense, ndim = 2.                        *)

TrilLen(s) == (s * (s - 1)) \div 2

TrilRow(p) == CHOOSE a \in 1..(p + 1) : TrilLen(a) <= p /\ p < TrilLen(a + 1)

\* the (row, col) of the p-th entry (0-based) of np.tril_indices(s, k=-1)
TrilPair(p) == <<TrilRow(p), p - TrilLen(TrilRow(p))>>

Compositions(r) ==
    {c \in UNION {[1..k -> 1..r] : k \in 1..r} : SumSeq(c) = r}

BlockPos(sizes, i) ==
    \* 0-based position of the block holding row i (1-based)
    CHOOSE k \in 0..(Len(sizes) - 1) :
        /\ SumSeq(SubSeq(sizes, 1, k)) < i
        /\ i <= SumSeq(SubSeq(sizes, 1, k + 1))

MkInfo(chrs, sizes, step) ==
    [i \in 1..Len(chrs) |->
        LET k == BlockPos(sizes, i)
        IN [CHR |-> chrs[i], SNP |-> i,
            block |-> k * step + (step - 1),
            block_idx |-> i - SumSeq(SubSeq(sizes, 1, k)) - 1]]

MkData(sizes) ==
    [k \in 1..Len(sizes) |->
        LET first == SumSeq(SubSeq(sizes, 1, k - 1))
        IN [ndim |-> 1,
            v |-> [p \in 1..TrilLen(sizes[k]) |->
                     <<first + TrilPair(p - 1)[1] + 1, first + TrilPair(p - 1)[2] + 1>>]]]

FilesOfRows(R) ==
    {[info |-> MkInfo(chrs, sizes, step), data |-> MkData(sizes)] :
        chrs \in [1..R -> 1..MaxChr], sizes \in Compositions(R), step \in 1..2}

LDFiles == UNION {FilesOfRows(R) : R \in 1..MaxRows}

\* the LD matrices a merge list names: one SNP on each chromosome, and one
\* matrix whose chromosomes are out of order
MergeFiles ==
    {[info |-> MkInfo(<<c>>, <<1>>, 1), data |-> MkData(<<1>>)] : c \in 1..MaxChr}
    \cup {[info |-> MkInfo(<<MaxChr, 1>>, <<2>>, 1), data |-> MkData(<<2>>)]}

SNPs == 1..MaxRows

----------------------------------------------------------------------------
(* LDmatrix *)

Col(info, c) == [i \in DOMAIN info |-> info[i][c]]

\* ldmatrix.py:18  (np.diff(pd.unique(ld_info['CHR'])) > 0).all()
ChrCheck(info) ==
    LET u == Unique(Col(info, "CHR"))
    IN \A i \in 1..(Len(u) - 1) : u[i + 1] - u[i] > 0

Labels(info) == Range(Col(info, "block"))

CountLabel(info, b) == Cardinality({i \in DOMAIN info : info[i].block = b})

\* ldmatrix.py:28-37
GetBlockInfo(info) ==
    LET labels == SortSet(Labels(info))
        sizes == [k \in 1..Len(labels) |-> CountLabel(info, labels[k])]
        ranges == [k \in 1..Len(sizes) |->
                     <<SumSeq(SubSeq(sizes, 1, k - 1)), SumSeq(SubSeq(sizes, 1, k))>>]
    IN [block_sizes |-> sizes, block_ranges |-> ranges]

\* ldmatrix.py:40-52; the dense dim x dim matrix with diagonal 1
Get2dMatrix(dim, tril) ==
    IF tril.ndim = 2 THEN [err |-> "ValueError", val |-> <<>>]
    ELSE IF Len(tril.v) # TrilLen(dim) /\ Len(tril.v) # 1
    THEN [err |-> "ValueError", val |-> <<>>]      \* shape mismatch on assignment
    ELSE [err |-> "ok",
          val |-> [a \in 1..dim |-> [b \in 1..dim |->
                     IF a = b THEN <<0, 0>>        \* np.fill_diagonal(matrix, 1)
                     ELSE LET hi == IF a > b THEN a ELSE b
                              lo == IF a > b THEN b ELSE a
                              p == TrilLen(hi - 1) + (lo - 1)
                          IN IF Len(tril.v) = TrilLen(dim) THEN tril.v[p + 1]
                             ELSE tril.v[1]]]]     \* a single value is broadcast

\* np.cumsum(range(1, size)): the running sum taken one entry late
CumSumLate(size) == [j \in 1..(IF size > 1 THEN size - 1 ELSE 0) |-> TrilLen(j + 1)]

\* ldmatrix.py:127  cum_sum = np.cumsum(range(size - 1)), as a 0-based array
CumSum(size) == [j \in 1..(IF size > 1 THEN size - 1 ELSE 0) |-> TrilLen(j)]

\* a 0-based read a[j] of a numpy array of length n raises IndexError
\* outside -n..n-1 (negative indices count from the end)
NpIndexOk(j, len) == -len <= j /\ j < len

NpAt(a, j) == IF j >= 0 THEN a[j + 1] ELSE a[Len(a) + j + 1]

\* ldmatrix.py:128-130  the offsets cum_sum[idxs[i] - 1] + idxs[:i] for i from
\* 1, concatenated
ExtractOffsets(size, idxs) ==
    Flatten([i \in 1..(Len(idxs) - 1) |->
               [b \in 1..i |-> NpAt(CumSum(size), idxs[i + 1] - 1) + idxs[b]]])

\* ldmatrix.py:112-133
ExtractByIdxs(tril, size, idxs) ==
    IF \E i \in 2..Len(idxs) : ~NpIndexOk(idxs[i] - 1, Len(CumSum(size)))
    THEN [err |-> "IndexError", val |-> <<>>]
    ELSE IF Len(idxs) > 1
    THEN IF \E k \in DOMAIN ExtractOffsets(size, idxs) :
                ~NpIndexOk(ExtractOffsets(size, idxs)[k], Len(tril.v))
         THEN [err |-> "IndexError", val |-> <<>>]
         ELSE [err |-> "ok",
               val |-> [ndim |-> 1,
                        v |-> [k \in DOMAIN ExtractOffsets(size, idxs) |->
                                 NpAt(tril.v, ExtractOffsets(size, idxs)[k])]]]
    ELSE [err |-> "ok", val |-> [ndim |-> 1, v |-> <<>>]]

\* ldmatrix.py:99  {k: g["block_idx"].tolist() for k, g in ld_info.groupby("block")}
BlockDict(info, b) ==
    Col(SelectIdx(info, {i \in DOMAIN info : info[i].block = b}), "block_idx")

RECURSIVE ExtractLoop(_, _, _, _, _)
\* ldmatrix.py:101-106; i is the 0-based loop index
ExtractLoop(i, d, keep_list, info, sizes) ==
    IF i >= Len(d) THEN [err |-> "ok", data |-> d, keep_list |-> keep_list]
    ELSE IF i \notin Labels(info)
    THEN ExtractLoop(i + 1, d, keep_list, info, sizes)
    ELSE IF i >= Len(sizes)
    THEN [err |-> "IndexError", data |-> d, keep_list |-> keep_list]
    ELSE LET r == ExtractByIdxs(d[i + 1], sizes[i + 1], BlockDict(info, i))
         IN IF r.err # "ok"
            THEN [err |-> r.err, data |-> d, keep_list |-> keep_list]
            ELSE ExtractLoop(i + 1, [d EXCEPT ![i + 1] = r.val],
                             Append(keep_list, i), info, sizes)

\* ldmatrix.py:108  the new block_idx column, assigned to the rows in row order
NewBlockIdx(info) ==
    LET labels == SortSet(Labels(info))
    IN Flatten([k \in 1..Len(labels) |-> Iota(CountLabel(info, labels[k]))])

LDObject == [ld_info |-> ld_info, data |-> data, is_truncated |-> is_truncated,
             block_sizes |-> block_sizes, block_ranges |-> block_ranges]

\* ldmatrix.py:82-109; the object after the call and the error it raised
ExtractOp(self, snps) ==
    IF self.is_truncated THEN [self |-> self, err |-> "truncated"]
    ELSE LET info1 == SelectIdx(self.ld_info,
                               {i \in DOMAIN self.ld_info : self.ld_info[i].SNP \in snps})
             loop == ExtractLoop(0, self.data, <<>>, info1, self.block_sizes)
         IN IF loop.err # "ok"
            THEN [self |-> [self EXCEPT !.ld_info = info1, !.data = loop.data],
                  err |-> loop.err]
            ELSE LET kept == [k \in 1..Len(loop.keep_list) |->
                                loop.data[loop.keep_list[k] + 1]]
                     idxcol == NewBlockIdx(info1)
                     info2 == [i \in DOMAIN info1 |->
                                 [info1[i] EXCEPT !.block_idx = idxcol[i]]]
                     bi == GetBlockInfo(info2)
                 IN [self |-> [self EXCEPT !.ld_info = info2, !.data = kept,
                                           !.block_sizes = bi.block_sizes,
                                           !.block_ranges = bi.block_ranges],
                     err |-> "ok"]

\* ldmatrix.py:7-25; the object LDmatrix(ld_prefix) builds from the files of a prefix
LoadOp(f) ==
    IF ~ChrCheck(f.info) THEN [err |-> "unsorted", self |-> <<>>]
    ELSE [err |-> "ok",
          self |-> [ld_info |-> f.info, data |-> f.data, is_truncated |-> FALSE,
                    block_sizes |-> GetBlockInfo(f.info).block_sizes,
                    block_ranges |-> GetBlockInfo(f.info).block_ranges]]

\* ldmatrix.py:71  the order check; TRUE when the incoming matrix is rejected
OrderCheckFails(incoming_info, self_info) ==
    incoming_info[1].CHR >= self_info[Len(self_info)].CHR

RECURSIVE MergeLoop(_, _)
\* ldmatrix.py:69-79.  Line 74 indexes the info table with the tuple
\* (index[-1], 'block'), which is no column of it and raises KeyError, after
\* line 73 has extended self.data: lines 75-79 are never reached.
MergeLoop(self, ld_files) ==
    IF ld_files = <<>> THEN [self |-> self, err |-> "ok"]
    ELSE LET ld_i == LoadOp(Head(ld_files))
         IN IF ld_i.err # "ok" THEN [self |-> self, err |-> ld_i.err]
            ELSE IF self.ld_info = <<>> THEN [self |-> self, err |-> "IndexError"]
            ELSE IF OrderCheckFails(ld_i.self.ld_info, self.ld_info)
            THEN [self |-> self, err |-> "order"]
            ELSE [self |-> [self EXCEPT !.data = self.data \o ld_i.self.data],
                  err |-> "KeyError"]

\* merge without its guard on the truncated flag
MergeOpUnguarded(self, ld_files) ==
    IF Len(ld_files) = 0 THEN [self |-> self, err |-> "empty_list"]
    ELSE MergeLoop(self, ld_files)

\* ldmatrix.py:55-79
MergeOp(self, ld_files) ==
    IF self.is_truncated THEN [self |-> self, err |-> "truncated"]
    ELSE IF Len(ld_files) = 0 THEN [self |-> self, err |-> "empty_list"]
    ELSE MergeLoop(self, ld_files)

PropOne == 100      \* prop == 1, with prop in percent

Props == {PropOne \div 2, PropOne}

\* ldmatrix.py:155-172; one block of ld_bd.  With prop == 1 it is the dense
\* block; otherwise it is rebuilt from the leading eigenpairs, which the model
\* keeps as the dense block tagged with prop and inv.
TruncateBlock(size, tril, prop, inv) ==
    LET block == Get2dMatrix(size, tril)
    IN IF block.err # "ok" THEN [err |-> block.err, val |-> <<>>]
       ELSE [err |-> "ok",
             val |-> [ndim |-> 2, v |-> block.val,
                      prop |-> prop, inv |-> IF prop = PropOne THEN FALSE ELSE inv]]

\* ldmatrix.py:136-174
TruncateOp(self, prop, inv) ==
    IF self.is_truncated THEN [self |-> self, err |-> "truncated"]
    ELSE IF \E i \in 1..Len(self.data) : i > Len(self.block_sizes)
    THEN [self |-> self,
          err |-> IF \E i \in 1..Len(self.block_sizes) :
                       TruncateBlock(self.block_sizes[i], self.data[i], prop, inv).err # "ok"
                  THEN "ValueError" ELSE "IndexError"]
    ELSE LET ld_bd == [i \in 1..Len(self.data) |->
                         TruncateBlock(self.block_sizes[i], self.data[i], prop, inv)]
         IN IF \E i \in DOMAIN ld_bd : ld_bd[i].err # "ok"
            THEN [self |-> self, err |-> "ValueError"]
            ELSE [self |-> [self EXCEPT !.data = [i \in DOMAIN ld_bd |-> ld_bd[i].val],
                                        !.is_truncated = TRUE],
                  err |-> "ok"]

----------------------------------------------------------------------------
(* The LD matrix engine as a state machine: one LDmatrix object, loaded     *)
(* from a prefix, then any sequence of merge, extract and truncate calls.  *)

NoCall == [op |-> "none", err |-> "ok"]

LDIdle ==
    /\ ld_state = "new"
    /\ ld_info = <<>>
    /\ data = <<>>
    /\ is_truncated = FALSE
    /\ block_sizes = <<>>
    /\ block_ranges = <<>>

SetSelf(self) ==
    /\ ld_info' = self.ld_info
    /\ data' = self.data
    /\ is_truncated' = self.is_truncated
    /\ block_sizes' = self.block_sizes
    /\ block_ranges' = self.block_ranges

Load(f) ==
    /\ ld_state = "new"
    /\ LET r == LoadOp(f)
       IN /\ call' = [op |-> "load", err |-> r.err]
          /\ IF r.err = "ok"
             THEN ld_state' = "loaded" /\ SetSelf(r.self)
             ELSE UNCHANGED ldVars

Merge(ld_files) ==
    /\ ld_state = "loaded"
    /\ LET r == MergeOp(LDObject, ld_files)
       IN /\ Len(r.self.data) <= MaxBlocks
          /\ call' = [op |-> "merge", err |-> r.err]
          /\ SetSelf(r.self)
          /\ UNCHANGED ld_state

Extract(snps) ==
    /\ ld_state = "loaded"
    /\ LET r == ExtractOp(LDObject, snps)
       IN /\ call' = [op |-> "extract", err |-> r.err]
          /\ SetSelf(r.self)
          /\ UNCHANGED ld_state

Truncate(prop, inv) ==
    /\ ld_state = "loaded"
    /\ LET r == TruncateOp(LDObject, prop, inv)
       IN /\ call' = [op |-> "truncate", err |-> r.err]
          /\ SetSelf(r.self)
          /\ UNCHANGED ld_state

----------------------------------------------------------------------------
(* PLINK .bed files.  A genotype matrix is SNP-major: G[snp][sample], with  *)
(* entries "0", "1", "2" and "nan" (missing).                              *)

Genotypes == {"0", "1", "2", "nan"}

Matrices(nn, mm) == [1..mm -> [1..nn -> Genotypes]]

RECURSIVE Pow2(_)
Pow2(k) == IF k = 0 THEN 1 ELSE 2 * Pow2(k - 1)

\* the encoder of the round trip: the 2-bit code of a genotype
Code(g) ==
    IF g = "0" THEN <<0, 0>>
    ELSE IF g = "1" THEN <<0, 1>>
    ELSE IF g = "2" THEN <<1, 1>>
    ELSE <<1, 0>>

\* the encoder: the padded length of one SNP, the least multiple of 4 >= nn
PaddedLen(nn) == CHOOSE k \in nn..(nn + 3) : k % 4 = 0

\* the encoder: one SNP as bits, padded with the genotype pad
EncodeSNP(col, pad) ==
    Flatten([i \in 1..PaddedLen(Len(col)) |->
               IF i <= Len(col) THEN Code(col[i]) ELSE Code(pad)])

\* the encoder: bits to bytes, the first bit in the lowest position
PackBytes(bits) ==
    [k \in 1..(Len(bits) \div 8) |->
        SumSeq([i \in 1..8 |-> bits[8 * (k - 1) + i] * Pow2(i - 1)])]

\* the encoder: the bytes 0x6c 0x1b 0x01 of a SNP-major .bed file
Header == <<108, 27, 1>>

\* the encoder: the whole file
EncodeBed(G, pad) ==
    Header \o PackBytes(Flatten([c \in 1..Len(G) |-> EncodeSNP(G[c], pad)]))

Variants == {"good", "bad_magic", "bad_mode", "short", "long", "no_mode", "bad_suffix"}

\* the file of a variant: well-formed, or damaged in one way
BedFile(G, pad, variant) ==
    LET good == EncodeBed(G, pad)
    IN [suffix_ok |-> variant # "bad_suffix",
        bytes |-> IF variant = "bad_magic" THEN [good EXCEPT ![2] = 0]
                  ELSE IF variant = "bad_mode" THEN [good EXCEPT ![3] = 0]
                  ELSE IF variant = "short" THEN SubSeq(good, 1, Len(good) - 1)
                  ELSE IF variant = "long" THEN Append(good, 0)
                  ELSE IF variant = "no_mode" THEN SubSeq(good, 1, 2)
                  ELSE good]

----------------------------------------------------------------------------
(* PlinkBEDFile *)

\* bitarray(endian='little').fromfile: the bits of a byte, lowest first
ToBits(byte) == [i \in 1..8 |-> (byte \div Pow2(i - 1)) % 2]

FromFile(bytes) == Flatten([k \in DOMAIN bytes |-> ToBits(bytes[k])])

\* parse.py:97  ba.bitarray('0011011011011000')
MagicNumber == <<0, 0, 1, 1, 0, 1, 1, 0, 1, 1, 0, 1, 1, 0, 0, 0>>

\* parse.py:100  ba.bitarray('10000000')
BedMode == <<1, 0, 0, 0, 0, 0, 0, 0>>

\* the padding computed without the case n % 4 = 0
NruAlwaysPadded(nn) == nn + (4 - (nn % 4))

\* parse.py:92-93
Nru(nn) == nn + (IF nn % 4 # 0 THEN 4 - (nn % 4) ELSE 0)

\* parse.py:109-113  TRUE when the length test passes
TestLength(bits, mm, nruu) == Len(bits) = 2 * mm * nruu

\* parse.py:83-107
ReadOp(file, mm, nn) ==
    IF ~file.suffix_ok THEN [err |-> "ValueError", nru |-> 0, geno |-> <<>>]
    ELSE IF Len(file.bytes) < 3 THEN [err |-> "EOFError", nru |-> 0, geno |-> <<>>]
    ELSE IF FromFile(SubSeq(file.bytes, 1, 2)) # MagicNumber
    THEN [err |-> "IOError_magic", nru |-> 0, geno |-> <<>>]
    ELSE IF FromFile(SubSeq(file.bytes, 3, 3)) # BedMode
    THEN [err |-> "IOError_mode", nru |-> 0, geno |-> <<>>]
    ELSE LET bits == FromFile(SubSeq(file.bytes, 4, Len(file.bytes)))
         IN IF ~TestLength(bits, mm, Nru(nn))
            THEN [err |-> "IOError_length", nru |-> 0, geno |-> <<>>]
            ELSE [err |-> "ok", nru |-> Nru(nn), geno |-> bits]

\* the code table with the codes of 1 and missing exchanged
DecodePairSwapped(b1, b2) ==
    IF b1 = 1 /\ b2 = 1 THEN "2"
    ELSE IF b1 = 1 /\ b2 = 0 THEN "1"
    ELSE IF b1 = 0 /\ b2 = 1 THEN "nan"
    ELSE "0"

\* parse.py:74-79  self._bedcode, read by bitarray.decode two bits at a time
DecodePair(b1, b2) ==
    IF b1 = 1 /\ b2 = 1 THEN "2"
    ELSE IF b1 = 1 /\ b2 = 0 THEN "nan"
    ELSE IF b1 = 0 /\ b2 = 1 THEN "1"
    ELSE "0"

\* parse.py:126-128  the genotype vector of SNP c (0-based)
DecodeSNP(bits, nruu, nn, c) ==
    LET slice == SubSeq(bits, 2 * c * nruu + 1, 2 * (c + 1) * nruu)
        X == [j \in 1..(Len(slice) \div 2) |-> DecodePair(slice[2 * j - 1], slice[2 * j])]
    IN SubSeq(X, 1, nn)

RECURSIVE NextLoop(_, _, _, _)
\* parse.py:122-130; i is the loop index, cur the cursor, snps the columns read
NextLoop(i, num, cur, snps) ==
    IF i >= num THEN [err |-> "ok", cur |-> cur, snps |-> snps]
    ELSE IF cur + 1 > m THEN [err |-> "ValueError", cur |-> cur, snps |-> snps]
    ELSE NextLoop(i + 1, num, cur + 1, Append(snps, DecodeSNP(geno, nru, n, cur)))

\* parse.py:115-132
NextSNPsOp(num) == NextLoop(0, num, _currentSNP, <<>>)

\* parse.py:134-140
GenSNPsOp == [c \in 1..m |-> <<c - 1, DecodeSNP(geno, nru, n, c - 1)>>]

\* the files given to the parser: every small genotype matrix well encoded
\* with each padding, and the all-zero matrix of every shape in every variant
BedInputs(max_samples) ==
    UNION {UNION {
        {[n |-> nn, m |-> mm, G |-> G, file |-> BedFile(G, pad, "good")] :
            G \in Matrices(nn, mm), pad \in Genotypes} :
        mm \in {k \in 1..MaxSnps : nn * k <= MaxCells}} : nn \in 1..max_samples}
    \cup {[n |-> nn, m |-> mm, G |-> [c \in 1..mm |-> [i \in 1..nn |-> "0"]],
           file |-> BedFile([c \in 1..mm |-> [i \in 1..nn |-> "0"]], "0", variant)] :
            nn \in 1..max_samples, mm \in 0..MaxSnps, variant \in Variants}

BedNew ==
    /\ bed_state = "new"
    /\ m = 0
    /\ n = 0
    /\ nru = 0
    /\ geno = <<>>
    /\ _currentSNP = 0
    /\ returned = <<>>
    /\ yielded = <<>>

BedIdle == bed_in = <<>> /\ BedNew

\* parse.py:59-63, 73-81  PlinkBEDFile(fname, n, snp_list)
Construct ==
    /\ bed_state = "new"
    /\ LET r == ReadOp(bed_in.file, bed_in.m, bed_in.n)
       IN /\ call' = [op |-> "init", err |-> r.err]
          /\ bed_state' = IF r.err = "ok" THEN "ok" ELSE "failed"
          /\ m' = bed_in.m
          /\ n' = bed_in.n
          /\ _currentSNP' = 0
          /\ nru' = r.nru
          /\ geno' = r.geno
    /\ UNCHANGED <<bed_in, returned, yielded>>

NextSNPs(num) ==
    /\ bed_state = "ok"
    /\ LET r == NextSNPsOp(num)
       IN /\ call' = [op |-> "nextSNPs", err |-> r.err]
          /\ _currentSNP' = r.cur
          /\ returned' = IF r.err = "ok" THEN returned \o r.snps ELSE returned
    /\ UNCHANGED <<bed_in, bed_state, m, n, nru, geno, yielded>>

GenSNPs ==
    /\ bed_state = "ok"
    /\ yielded' = GenSNPsOp
    /\ call' = [op |-> "gen_SNPs", err |-> "ok"]
    /\ UNCHANGED <<bed_in, bed_state, m, n, nru, geno, _currentSNP, returned>>

----------------------------------------------------------------------------
(* Summary-statistics pruning: heig/sumstats.py and heri_gc.py.  An allele  *)
(* is a sequence of characters; maf_min and info_min are <<>> for None and *)
(* <<v>> for a threshold v; MAF is in hundredths and INFO in tenths.       *)

FnIdle == args = <<>> /\ result = <<>> /\ sumstats = <<>>

\* heig/sumstats.py:180
complement == [c \in {"A", "T", "C", "G"} |->
                 IF c = "A" THEN "T" ELSE IF c = "T" THEN "A"
                 ELSE IF c = "C" THEN "G" ELSE "C"]

\* heri_gc.py:18
COMPLEMENT == [c \in {"A", "T", "C", "G"} |->
                 IF c = "A" THEN "T" ELSE IF c = "T" THEN "A"
                 ELSE IF c = "C" THEN "G" ELSE "C"]

\* the strand filter that keeps a pair unless the alleles are equal
NotStrandAmbiguousEq(a2_, a1_) ==
    /\ Len(a2_) = 1 /\ Len(a1_) = 1
    /\ a2_[1] \in DOMAIN complement /\ a1_[1] \in DOMAIN complement
    /\ a2_[1] # a1_[1]

\* heig/sumstats.py:367-369  one element of not_strand_ambiguous
NotStrandAmbiguous(a2_, a1_) ==
    /\ Len(a2_) = 1 /\ Len(a1_) = 1
    /\ a2_[1] \in DOMAIN complement /\ a1_[1] \in DOMAIN complement
    /\ complement[a2_[1]] # a1_[1]

\* heri_gc.py:130-132  one element of not_strand_ambiguous
NotStrandAmbiguousEst(a2_, a1_) ==
    /\ Len(a2_) = 1 /\ Len(a1_) = 1
    /\ a2_[1] \in DOMAIN COMPLEMENT /\ a1_[1] \in DOMAIN COMPLEMENT
    /\ COMPLEMENT[a2_[1]] # a1_[1]

RECURSIVE SortValues(_)
\* the values of a sequence of integers in ascending order
SortValues(s) ==
    IF s = <<>> THEN <<>>
    ELSE LET i == CHOOSE j \in DOMAIN s : \A k \in DOMAIN s : s[j] <= s[k]
         IN <<s[i]>> \o SortValues(SelectIdx(s, DOMAIN s \ {i}))

\* pd.Series.quantile(0.9), linear interpolation, times 10
Quantile90x10(col) ==
    LET s == SortValues(col)
        pos10 == 9 * (Len(s) - 1)
        lo == pos10 \div 10
        frac10 == pos10 % 10
    IN IF frac10 = 0 THEN 10 * s[lo + 1]
       ELSE 10 * s[lo + 1] + frac10 * (s[lo + 2] - s[lo + 1])

\* heig/sumstats.py:376  int(gwas['N'].quantile(0.9) / 1.5); the quantile of
\* an empty column is nan, which int() rejects
NThresh(col) ==
    IF col = <<>> THEN [err |-> "ValueError", val |-> 0]
    ELSE LET q10 == Quantile90x10(col)
         IN [err |-> "ok",
             val |-> IF q10 >= 0 THEN q10 \div 15 ELSE -((-q10) \div 15)]

Count(col, x) == Cardinality({i \in DOMAIN col : col[i] = x})

\* heig/sumstats.py:357  drop_duplicates(subset=['SNP'], keep=False)
DropDuplicates(gwas) ==
    SelectIdx(gwas, {i \in DOMAIN gwas : Count(Col(gwas, "SNP"), gwas[i].SNP) = 1})

\* heig/sumstats.py:362  rows without inf, -inf or nan
DropMissing(gwas) ==
    SelectIdx(gwas, {i \in DOMAIN gwas : gwas[i].Z \notin {"inf", "-inf", "nan"}})

\* heig/sumstats.py:367-371
DropStrandAmbiguous(gwas) ==
    SelectIdx(gwas, {i \in DOMAIN gwas : NotStrandAmbiguous(gwas[i].A2, gwas[i].A1)})

\* heig/sumstats.py:376-377
DropSmallN(gwas) ==
    LET n_thresh == NThresh(Col(gwas, "N"))
    IN IF gwas # <<>> /\ "N" \notin DOMAIN gwas[1]
       THEN [err |-> "KeyError", gwas |-> gwas]      \* gwas['N']: no such column
       ELSE IF n_thresh.err # "ok" THEN [err |-> n_thresh.err, gwas |-> gwas]
       ELSE [err |-> "ok",
             gwas |-> SelectIdx(gwas, {i \in DOMAIN gwas : gwas[i].N >= n_thresh.val})]

\* heig/sumstats.py:383
DropSmallMaf(gwas, maf_min) ==
    SelectIdx(gwas, {i \in DOMAIN gwas : gwas[i].MAF >= maf_min[1]})

\* heig/sumstats.py:389
DropSmallInfo(gwas, info_min) ==
    SelectIdx(gwas, {i \in DOMAIN gwas : gwas[i].INFO >= info_min[1]})

\* a check that never raises
CheckRemainingSnpsNever(gwas) == FALSE

\* heig/sumstats.py:398-408  TRUE when _check_remaining_snps raises
CheckRemainingSnps(gwas) == Len(gwas) = 0

\* heig/sumstats.py:354-392  the steps _prune_snps runs, in order
PruneSteps(maf_min, info_min) ==
    <<"duplicates", "missing", "strand", "n">>
    \o (IF maf_min # <<>> THEN <<"maf">> ELSE <<>>)
    \o (IF info_min # <<>> THEN <<"info">> ELSE <<>>)

PruneStep(step, gwas, maf_min, info_min) ==
    IF step = "duplicates" THEN [err |-> "ok", gwas |-> DropDuplicates(gwas)]
    ELSE IF step = "missing" THEN [err |-> "ok", gwas |-> DropMissing(gwas)]
    ELSE IF step = "strand" THEN [err |-> "ok", gwas |-> DropStrandAmbiguous(gwas)]
    ELSE IF step = "n" THEN DropSmallN(gwas)
    ELSE IF step = "maf" THEN [err |-> "ok", gwas |-> DropSmallMaf(gwas, maf_min)]
    ELSE [err |-> "ok", gwas |-> DropSmallInfo(gwas, info_min)]

RECURSIVE PruneLoop(_, _, _, _, _)
\* heig/sumstats.py:354-396: _check_remaining_snps on entry and after every
\* step; tables is the table on entry followed by the table after each step
PruneLoop(gwas, steps, maf_min, info_min, tables) ==
    IF CheckRemainingSnps(gwas)
    THEN [err |-> "no SNP remaining", gwas |-> <<>>, tables |-> tables]
    ELSE IF steps = <<>> THEN [err |-> "ok", gwas |-> gwas, tables |-> tables]
    ELSE LET r == PruneStep(Head(steps), gwas, maf_min, info_min)
         IN IF r.err # "ok" THEN [err |-> r.err, gwas |-> <<>>, tables |-> tables]
            ELSE PruneLoop(r.gwas, Tail(steps), maf_min, info_min,
                           Append(tables, r.gwas))

\* heig/sumstats.py:332-396
PruneSnps(gwas, maf_min, info_min) ==
    PruneLoop(gwas, PruneSteps(maf_min, info_min), maf_min, info_min, <<gwas>>)

\* a row that passes every filter
GoodRow(snp) ==
    [SNP |-> snp, A1 |-> <<"A">>, A2 |-> <<"C">>, N |-> 4, Z |-> "1",
     MAF |-> 1, INFO |-> 9]

\* the rows of the tables given to _prune_snps: a good row, a row that one
\* filter removes, for each filter, and a row that every filter removes
GwasRows ==
    UNION {{GoodRow(snp),
            [GoodRow(snp) EXCEPT !.A2 = <<"T">>],
            [GoodRow(snp) EXCEPT !.Z = "nan"],
            [GoodRow(snp) EXCEPT !.Z = "inf"],
            [GoodRow(snp) EXCEPT !.N = 1],
            [GoodRow(snp) EXCEPT !.MAF = 0],
            [GoodRow(snp) EXCEPT !.INFO = 8],
            [GoodRow(snp) EXCEPT !.A2 = <<"T">>, !.Z = "nan", !.N = 1,
                                 !.MAF = 0, !.INFO = 8]} : snp \in 1..2}

PruneInputs ==
    [gwas : SeqsUpTo(GwasRows, MaxGwasRows),
     maf_min : {<<>>, <<1>>}, info_min : {<<>>, <<9>>}]

Prune ==
    /\ call.op = "none"
    /\ LET r == PruneSnps(args.gwas, args.maf_min, args.info_min)
       IN /\ call' = [op |-> "_prune_snps", err |-> r.err]
          /\ result' = r
    /\ UNCHANGED <<args, sumstats>>

----------------------------------------------------------------------------
(* The strand filter of both pruning routines, applied to one pair *)

Chars == {"A", "T", "C", "G", "N", "a"}

Alleles == SeqsUpTo(Chars, MaxAlleleLen)

StrandFilter ==
    /\ call.op = "none"
    /\ result' = [sumstats |-> NotStrandAmbiguous(args.A2, args.A1),
                  heri_gc |-> NotStrandAmbiguousEst(args.A2, args.A1)]
    /\ call' = [op |-> "strand", err |-> "ok"]
    /\ UNCHANGED <<args, sumstats>>

----------------------------------------------------------------------------
(* GWAS._check_median: an effect is nan or a number of quarters, so that   *)
(* every median is a number of eighths and floating point holds it exactly *)

\* np.nanmedian, times 2; <<>> when every value is nan
NanMedianx2(column) ==
    LET s == SortValues(Col(SelectIdx(column, {i \in DOMAIN column : ~column[i].nan}), "x"))
        k == Len(s)
    IN IF k = 0 THEN <<>>
       ELSE IF k % 2 = 1 THEN <<2 * s[(k + 1) \div 2]>>
       ELSE <<s[k \div 2] + s[k \div 2 + 1]>>

\* heig/sumstats.py:457-464  TRUE when _check_median raises: the test is
\* np.abs(median_beta - null_value > 0.1), the absolute value of a comparison
CheckMedian(column, null_value) ==
    LET median_beta == NanMedianx2(column)
    IN median_beta # <<>> /\ 10 * (median_beta[1] - 2 * null_value) > 8

Effects(null_value) ==
    {[nan |-> TRUE, x |-> 0]}
    \cup {[nan |-> FALSE, x |-> null_value + d] : d \in (-MaxDev)..MaxDev}

\* null_value 0 or 1, in quarters
NullValues == {0, 4}

MedianInputs(max_data) ==
    UNION {{[data |-> d, null_value |-> nv] :
              d \in SeqsUpTo(Effects(nv), max_data) \ {<<>>}} : nv \in NullValues}

Median ==
    /\ call.op = "none"
    /\ call' = [op |-> "_check_median",
                err |-> IF CheckMedian(args.data, args.null_value)
                        THEN "ValueError" ELSE "ok"]
    /\ result' = NanMedianx2(args.data)
    /\ UNCHANGED <<args, sumstats>>

----------------------------------------------------------------------------
(* get_common_snps: an argument is None or carries the set of its SNP ids *)

RECURSIVE CommonLoop(_, _)
\* heri_gc.py:325-332; common_snps None and common_snps empty are both the
\* empty set here: the code tests them alike, with `not common_snps`
CommonLoop(snp_list, common_snps) ==
    IF snp_list = <<>> THEN common_snps
    ELSE LET x == Head(snp_list)
         IN IF x.has_snp
            THEN IF common_snps = {}
                 THEN CommonLoop(Tail(snp_list), x.SNP)
                 ELSE CommonLoop(Tail(snp_list), common_snps \cap x.SNP)
            ELSE CommonLoop(Tail(snp_list), common_snps)

\* heri_gc.py:308-337
GetCommonSnps(snp_list) ==
    IF Len(snp_list) = 0 THEN [err |-> "ValueError", common_snps |-> {}]
    ELSE LET common_snps == CommonLoop(snp_list, {})
         IN IF common_snps = {} THEN [err |-> "ValueError", common_snps |-> {}]
            ELSE [err |-> "ok", common_snps |-> common_snps]

SnpArgs ==
    {[has_snp |-> FALSE, SNP |-> {}]}
    \cup {[has_snp |-> TRUE, SNP |-> S] : S \in SUBSET (1..MaxSnpId)}

Common ==
    /\ call.op = "none"
    /\ LET r == GetCommonSnps(args)
       IN /\ call' = [op |-> "get_common_snps", err |-> r.err]
          /\ result' = r.common_snps
    /\ UNCHANGED <<args, sumstats>>

----------------------------------------------------------------------------
(* check_input of the preprocessor: heig/sumstats.py.  An argument is <<>>  *)
(* for None and <<v>> for a given value v; --maf-min is in hundredths and   *)
(* --info-min in tenths.                                                    *)

None == <<>>

\* Python truthiness of an optional string
TruthyStr(x) == x # None /\ x[1] # ""

\* Python truthiness of an optional number
TruthyNum(x) == x # None /\ x[1] # 0

\* the required-argument checks without the test that rejects both inputs
CheckRequiredEitherOrBoth(a) ==
    IF a.ldr_gwas = None /\ a.y2_gwas = None THEN "ValueError_gwas"
    ELSE IF a.snp_col = None THEN "ValueError_snp_col"
    ELSE IF a.a1_col = None THEN "ValueError_a1_col"
    ELSE IF a.a2_col = None THEN "ValueError_a2_col"
    ELSE IF a.n_col = None /\ a.n = None THEN "ValueError_n"
    ELSE IF a.ldr_gwas # None /\ (a.effect_col = None \/ a.se_col = None
                                  \/ a.chr_col = None \/ a.pos_col = None)
    THEN "ValueError_ldr_cols"
    ELSE "ok"

\* heig/sumstats.py:19-50  the error the required-argument checks raise
CheckRequired(a) ==
    IF a.ldr_gwas = None /\ a.y2_gwas = None THEN "ValueError_gwas"
    ELSE IF a.snp_col = None THEN "ValueError_snp_col"
    ELSE IF a.a1_col = None THEN "ValueError_a1_col"
    ELSE IF a.a2_col = None THEN "ValueError_a2_col"
    ELSE IF a.n_col = None /\ a.n = None THEN "ValueError_n"
    ELSE IF a.ldr_gwas # None /\ a.y2_gwas # None THEN "ValueError_both"
    ELSE IF a.ldr_gwas # None
    THEN IF a.effect_col = None THEN "ValueError_effect_col"
         ELSE IF a.se_col = None THEN "ValueError_se_col"
         ELSE IF a.chr_col = None THEN "ValueError_chr_col"
         ELSE IF a.pos_col = None THEN "ValueError_pos_col"
         ELSE "ok"
    ELSE IF ~(\/ a.z_col # None
              \/ a.effect_col # None /\ a.se_col # None
              \/ a.effect_col # None /\ a.p_col # None)
    THEN "ValueError_y2_cols"
    ELSE "ok"

\* heig/sumstats.py:52-61
CheckMaf(a) ==
    IF a.maf_col # None /\ a.maf_min # None
    THEN IF a.maf_min[1] <= 0 \/ a.maf_min[1] >= 50
         THEN [err |-> "ValueError_maf_min", maf_min |-> a.maf_min]
         ELSE [err |-> "ok", maf_min |-> a.maf_min]
    ELSE IF a.maf_col = None /\ a.maf_min # None
    THEN [err |-> "ok", maf_min |-> None]
    ELSE IF TruthyStr(a.maf_col) /\ a.maf_min = None
    THEN [err |-> "ok", maf_min |-> <<1>>]
    ELSE [err |-> "ok", maf_min |-> a.maf_min]

\* heig/sumstats.py:63-71
CheckInfo(a) ==
    IF a.info_col # None /\ a.info_min # None
    THEN IF a.info_min[1] <= 0 \/ a.info_min[1] >= 10
         THEN [err |-> "ValueError_info_min", info_min |-> a.info_min]
         ELSE [err |-> "ok", info_min |-> a.info_min]
    ELSE IF a.info_col = None /\ TruthyNum(a.info_min)
    THEN [err |-> "ok", info_min |-> None]
    ELSE IF TruthyStr(a.info_col) /\ a.info_min = None
    THEN [err |-> "ok", info_min |-> <<9>>]
    ELSE [err |-> "ok", info_min |-> a.info_min]

\* heig/sumstats.py:86-97  --effect-col is `NAME,null`
CheckEffect(a) ==
    IF a.effect_col = None THEN "ok"
    ELSE IF a.effect_col[1] \notin {"BETA,0", "OR,1"} THEN "ValueError_effect"
    ELSE "ok"

\* heig/sumstats.py:17-99
CheckInput(a) ==
    LET maf == CheckMaf(a)
        info == CheckInfo(a)
        out == [a EXCEPT !.maf_min = maf.maf_min, !.info_min = info.info_min]
        e == IF CheckRequired(a) # "ok" THEN CheckRequired(a)
             ELSE IF maf.err # "ok" THEN maf.err
             ELSE IF info.err # "ok" THEN info.err
             ELSE IF a.n # None /\ a.n[1] <= 0 THEN "ValueError_n_value"
             ELSE IF ~a.files_exist THEN "FileNotFoundError"
             ELSE CheckEffect(a)
    IN [err |-> e, args |-> IF e = "ok" THEN out ELSE a]

Opt(v) == {None, <<v>>}

\* a configuration check_input accepts, in LDR mode
GoodLdrArgs ==
    [ldr_gwas |-> <<"ldr">>, y2_gwas |-> None, snp_col |-> <<"SNP">>,
     a1_col |-> <<"A1">>, a2_col |-> <<"A2">>, n_col |-> None, n |-> <<100>>,
     effect_col |-> <<"BETA,0">>, se_col |-> <<"SE">>, chr_col |-> <<"CHR">>,
     pos_col |-> <<"POS">>, z_col |-> None, p_col |-> None,
     maf_col |-> None, maf_min |-> None, info_col |-> None, info_min |-> None,
     files_exist |-> TRUE]

\* every combination of the required arguments, without MAF and INFO
RequiredArgs(good) ==
    {[good EXCEPT !.ldr_gwas = f[1], !.y2_gwas = f[2], !.snp_col = f[3],
                         !.a1_col = f[4], !.a2_col = f[5], !.n_col = f[6],
                         !.n = f[7], !.effect_col = f[8], !.se_col = f[9],
                         !.chr_col = f[10], !.pos_col = f[11], !.z_col = f[12],
                         !.p_col = f[13], !.files_exist = f[14]] :
       f \in Opt("ldr") \X Opt("y2") \X Opt("SNP") \X Opt("A1") \X Opt("A2")
             \X Opt("N") \X {None, <<0>>, <<100>>}
             \X {None, <<"BETA,0">>, <<"BETA">>} \X Opt("SE") \X Opt("CHR")
             \X Opt("POS") \X Opt("Z") \X Opt("P") \X BOOLEAN}

\* every combination of the MAF and INFO arguments, in an accepted LDR
\* configuration
ThresholdArgs(good) ==
    {[good EXCEPT !.maf_col = f[1], !.maf_min = f[2],
                         !.info_col = f[3], !.info_min = f[4]] :
       f \in {None, <<"">>, <<"MAF">>} \X {None, <<0>>, <<1>>, <<50>>}
             \X {None, <<"">>, <<"INFO">>} \X {None, <<0>>, <<9>>, <<10>>}}

\* the configurations that differ from good in the required arguments or in
\* the MAF and INFO arguments
CheckInputArgs(good) == RequiredArgs(good) \cup ThresholdArgs(good)

Check ==
    /\ call.op = "none"
    /\ LET r == CheckInput(args)
       IN /\ call' = [op |-> "check_input", err |-> r.err]
          /\ result' = r.args
    /\ UNCHANGED <<args, sumstats>>

----------------------------------------------------------------------------
(* GWAS.from_rawdata_ldr: heig/sumstats.py.  A file is the table read from  *)
(* it, with the N column only when --n-col was given.  EFFECT is 0, the     *)
(* null value, in every row; SE is different in every row of every file, so *)
(* that a matrix entry tells which row of which file it was copied from.    *)

FixedN == 4

\* the table read from file number i whose rows are rows
ReadFile(rows, i, has_n_col) ==
    [k \in DOMAIN rows |->
        LET base == [SNP |-> rows[k].SNP, A1 |-> <<"A">>, A2 |-> rows[k].A2,
                     Z |-> "1", EFFECT |-> [nan |-> FALSE, x |-> 0],
                     SE |-> 10 * i + k]
        IN IF has_n_col THEN [N |-> FixedN] @@ base ELSE base]

\* heig/sumstats.py:230-231  gwas_data['N'] = cols_map['n']
WithN(gwas) ==
    [k \in DOMAIN gwas |->
        IF "N" \in DOMAIN gwas[k] THEN gwas[k] ELSE [N |-> FixedN] @@ gwas[k]]

\* heig/sumstats.py:249-250  mat[:, i] = column; a column of one value is
\* broadcast to every row, any other length mismatch is a ValueError
SetColumn(mat, i, column) ==
    [k \in DOMAIN mat |->
        [mat[k] EXCEPT ![i] = IF Len(column) = Len(mat) THEN column[k] ELSE column[1]]]

ColumnFits(mat, column) == Len(column) = Len(mat) \/ Len(column) = 1

\* heig/sumstats.py:232-257  the pass for file number i, from the median
\* check on; pruned is what _prune_snps gives for gwas_data
RawPass(gwas_files, i, fast_sumstats, st, gwas_data, pruned) ==
    LET first == IF i = 1
                 THEN [st EXCEPT !.orig_snps_list = gwas_data,
                                 !.beta_mat = [k \in DOMAIN gwas_data |->
                                                 [j \in DOMAIN gwas_files |-> 0]],
                                 !.se_mat = [k \in DOMAIN gwas_data |->
                                               [j \in DOMAIN gwas_files |-> 0]],
                                 !.valid_snp_idxs = [k \in DOMAIN gwas_data |-> TRUE]]
                 ELSE st
        checked == i = 1 \/ ~fast_sumstats
        final_snps_list == Range(Col(pruned.gwas, "SNP"))
    IN IF checked /\ CheckMedian(Col(gwas_data, "EFFECT"), 0)
       THEN [st EXCEPT !.err = "ValueError_median"]
       ELSE IF i > 1 /\ ~fast_sumstats
               /\ Col(gwas_data, "SNP") # Col(first.orig_snps_list, "SNP")
       THEN [st EXCEPT !.err = "ValueError_snps"]
       ELSE IF ~ColumnFits(first.beta_mat, Col(gwas_data, "EFFECT"))
       THEN [st EXCEPT !.err = "ValueError_shape"]
       ELSE
       LET filled ==
             [first EXCEPT
                !.beta_mat = SetColumn(first.beta_mat, i,
                                 [k \in DOMAIN gwas_data |-> gwas_data[k].EFFECT.x]),
                !.se_mat = SetColumn(first.se_mat, i, Col(gwas_data, "SE"))]
       IN IF ~checked THEN filled
          ELSE IF pruned.err # "ok" THEN [st EXCEPT !.err = pruned.err]
          ELSE [filled EXCEPT !.valid_snp_idxs =
                   [k \in DOMAIN filled.valid_snp_idxs |->
                       /\ filled.valid_snp_idxs[k]
                       /\ filled.orig_snps_list[k].SNP \in final_snps_list]]

\* heig/sumstats.py:218-231  file number i (from 1) is read; only the first
\* file gets the N column
GwasData(gwas_files, i) == IF i = 1 THEN WithN(gwas_files[i]) ELSE gwas_files[i]

\* heig/sumstats.py:218-257  one pass of the loop
RawStep(gwas_files, i, fast_sumstats, st) ==
    RawPass(gwas_files, i, fast_sumstats, st, GwasData(gwas_files, i),
            PruneSnps(GwasData(gwas_files, i), None, None))

RECURSIVE RawLoop(_, _, _, _)
\* heig/sumstats.py:217-257  file number i and the files after it; an error
\* ends the loop
RawLoop(gwas_files, i, fast_sumstats, st) ==
    IF i > Len(gwas_files) \/ st.err # "ok" THEN st
    ELSE RawLoop(gwas_files, i + 1, fast_sumstats,
                 RawStep(gwas_files, i, fast_sumstats, st))

\* heig/sumstats.py:259-267  the object built from the loop's final state
RawResult(st) ==
    LET is_common_snp == {k \in DOMAIN st.valid_snp_idxs : st.valid_snp_idxs[k]}
    IN IF st.err # "ok"
       THEN [err |-> st.err, beta |-> <<>>, se |-> <<>>, snpinfo |-> <<>>]
       ELSE [err |-> "ok",
             beta |-> SelectIdx(st.beta_mat, is_common_snp),
             se |-> SelectIdx(st.se_mat, is_common_snp),
             snpinfo |-> SelectIdx(st.orig_snps_list, is_common_snp)]

\* heig/sumstats.py:188-267
FromRawdataLdr(gwas_files, fast_sumstats) ==
    RawResult(RawLoop(gwas_files, 1, fast_sumstats,
                 [err |-> "ok", orig_snps_list |-> <<>>, beta_mat |-> <<>>,
                  se_mat |-> <<>>, valid_snp_idxs |-> <<>>]))

\* the rows of an LDR file: a SNP the pruning keeps or a strand-ambiguous one
RawRows == [SNP : 1..2, A2 : {<<"C">>, <<"T">>}]

Flip(row) == [row EXCEPT !.A2 = IF row.A2 = <<"C">> THEN <<"T">> ELSE <<"C">>]

\* how a later file differs from the first: not at all, in the alleles of
\* its first row or of every row, in the order of its rows, or by lacking
\* the last row
FileVariants == {"same", "flip_first", "flip_all", "reversed", "shorter"}

FileVariant(t, v) ==
    IF v = "flip_first" THEN [k \in DOMAIN t |-> IF k = 1 THEN Flip(t[k]) ELSE t[k]]
    ELSE IF v = "flip_all" THEN [k \in DOMAIN t |-> Flip(t[k])]
    ELSE IF v = "reversed" THEN [k \in DOMAIN t |-> t[Len(t) + 1 - k]]
    ELSE IF v = "shorter" THEN SubSeq(t, 1, Len(t) - 1)
    ELSE t

RawInputs(max_files) ==
    {[rows |-> <<t>> \o [j \in DOMAIN vs |-> FileVariant(t, vs[j])],
      n_col |-> c, fast_sumstats |-> f] :
        t \in SeqsUpTo(RawRows, MaxGwasRows),
        vs \in SeqsUpTo(FileVariants, max_files - 1),
        c \in BOOLEAN, f \in BOOLEAN}

GwasFiles(a) == [i \in DOMAIN a.rows |-> ReadFile(a.rows[i], i, a.n_col)]

FromRawdata ==
    /\ call.op = "none"
    /\ LET r == FromRawdataLdr(GwasFiles(args), args.fast_sumstats)
       IN /\ call' = [op |-> "from_rawdata_ldr", err |-> r.err]
          /\ result' = r
    /\ UNCHANGED <<args, sumstats>>

----------------------------------------------------------------------------
(* GWAS.extract_snps: heig/sumstats.py.  The info row that was at position *)
(* k when the object was made has POS = k and its statistics are           *)
(* beta = 10 + k, se = 20 + k, or z = 30 + k, so that a matrix row tells   *)
(* which SNP it was stored for.                                            *)

MaxInfoRows == 3    \* rows of snpinfo; a keep list naming a SNP twice adds rows

BetaOf(pos) == 10 + pos
SeOf(pos) == 20 + pos
ZOf(pos) == 30 + pos

\* heig/sumstats.py:182-186 after from_rawdata_ldr (z None) or
\* from_rawdata_y2 (beta and se None); z_is_none tells z = None from a z
\* matrix without rows
NewGwas(snps, has_z) ==
    [snpinfo |-> [k \in DOMAIN snps |-> [SNP |-> snps[k], POS |-> k]],
     beta |-> IF has_z THEN None ELSE [k \in DOMAIN snps |-> BetaOf(k)],
     se |-> IF has_z THEN None ELSE [k \in DOMAIN snps |-> SeOf(k)],
     z_is_none |-> ~has_z,
     z |-> IF has_z THEN [k \in DOMAIN snps |-> ZOf(k)] ELSE None]

\* the objects the constructors build: pruning has dropped repeated SNPs
GwasObjects ==
    {NewGwas(snps, has_z) :
        snps \in {q \in SeqsUpTo(1..(MaxSnpId + 1), MaxInfoRows) :
                     \A i, j \in DOMAIN q : i # j => q[i] # q[j]},
        has_z \in BOOLEAN}

\* keep_snps: a Series named SNP or a DataFrame with the column SNP
KeepSnps ==
    [kind : {"Series", "DataFrame"}, SNP : SeqsUpTo(1..(MaxSnpId + 1), 2)]

\* heig/sumstats.py:486  snpinfo['id'] = snpinfo.index
WithId(snpinfo) == [k \in DOMAIN snpinfo |-> [id |-> k - 1] @@ snpinfo[k]]

\* heig/sumstats.py:487  keep_snps.merge(snpinfo, on='SNP'): an inner join in
\* the order of the left keys, the matching right rows in their own order
MergeOnSnp(left, right) ==
    Flatten([k \in DOMAIN left |->
                SelectIdx(right, {j \in DOMAIN right : right[j].SNP = left[k]})])

\* heig/sumstats.py:493  del snpinfo['id']
DelId(snpinfo) ==
    [k \in DOMAIN snpinfo |->
        [c \in DOMAIN snpinfo[k] \ {"id"} |-> snpinfo[k][c]]]

\* numpy fancy indexing mat[ids]
TakeRows(mat, ids) == [k \in DOMAIN ids |-> mat[ids[k] + 1]]

\* extract_snps that leaves the matrices as they were
ExtractSnpsOpInfoOnly(self, keep_snps) ==
    [self EXCEPT !.snpinfo = DelId(MergeOnSnp(keep_snps.SNP, WithId(self.snpinfo)))]

\* heig/sumstats.py:475-493
ExtractSnpsOp(self, keep_snps) ==
    LET merged == MergeOnSnp(keep_snps.SNP, WithId(self.snpinfo))
        ids == Col(merged, "id")
    IN IF self.z_is_none
       THEN [self EXCEPT !.snpinfo = DelId(merged),
                         !.beta = TakeRows(self.beta, ids),
                         !.se = TakeRows(self.se, ids)]
       ELSE [self EXCEPT !.snpinfo = DelId(merged),
                         !.z = TakeRows(self.z, ids)]

ExtractSnps(keep_snps) ==
    /\ sumstats # <<>>
    /\ Len(ExtractSnpsOp(sumstats, keep_snps).snpinfo) <= MaxInfoRows
    /\ sumstats' = ExtractSnpsOp(sumstats, keep_snps)
    /\ call' = [op |-> "extract_snps", err |-> "ok"]
    /\ UNCHANGED <<args, result>>

----------------------------------------------------------------------------
(* align_alleles: heri_gc.py.  A GWAS object of the estimator holds the     *)
(* columns SNP and A1 and the matrix z_mat, one row per SNP.                *)

\* the z-scores of the SNP in row k of a GWAS object, one per trait
ZRow(k) == <<k, -(k + 2)>>

EstGwas(snps, a1) ==
    [SNP |-> snps, A1 |-> a1, z_mat |-> [k \in DOMAIN snps |-> ZRow(k)]]

EstGwasObjects ==
    UNION {{EstGwas(snps, a1) : snps \in [1..len -> 1..MaxSnpId],
                                a1 \in [1..len -> {"A", "C"}]} :
           len \in 0..MaxGwasRows}

\* -z_mat[i]
Negated(row) == [j \in DOMAIN row |-> -row[j]]

\* the alignment that negates the rows whose alleles agree
AlignedZSame(gwas1, gwas2) ==
    [i \in DOMAIN gwas2.z_mat |->
        IF gwas1.A1[i] = gwas2.A1[i] THEN Negated(gwas2.z_mat[i]) ELSE gwas2.z_mat[i]]

\* heri_gc.py:183-184
AlignedZ(gwas1, gwas2) ==
    [i \in DOMAIN gwas2.z_mat |->
        IF gwas1.A1[i] # gwas2.A1[i] THEN Negated(gwas2.z_mat[i]) ELSE gwas2.z_mat[i]]

\* heri_gc.py:158-189  the error raised and both objects afterwards
AlignAlleles(gwas1, gwas2) ==
    IF Len(gwas1.SNP) # Len(gwas2.SNP)
    THEN [err |-> "ValueError_length", gwas1 |-> gwas1, gwas2 |-> gwas2]
    ELSE IF \E i \in DOMAIN gwas1.SNP : gwas1.SNP[i] # gwas2.SNP[i]
    THEN [err |-> "ValueError_snps", gwas1 |-> gwas1, gwas2 |-> gwas2]
    ELSE [err |-> "ok", gwas1 |-> gwas1,
          gwas2 |-> [gwas2 EXCEPT !.z_mat = AlignedZ(gwas1, gwas2),
                                  !.A1 = gwas1.A1]]

Align ==
    /\ call.op = "none"
    /\ LET r == AlignAlleles(args.gwas1, args.gwas2)
       IN /\ call' = [op |-> "align_alleles", err |-> r.err]
          /\ result' = [gwas1 |-> r.gwas1, gwas2 |-> r.gwas2]
    /\ UNCHANGED <<args, sumstats>>

----------------------------------------------------------------------------
(* format_heri and format_gene_cor_y2: heri_gc.py.  An estimate is nan or a *)
(* number of tenths.                                                        *)

NaN == [nan |-> TRUE, x |-> 0]

Num(x) == [nan |-> FALSE, x |-> x]

\* numpy comparisons: every comparison with nan is False
Gt(v, c) == ~v.nan /\ v.x > c
Lt(v, c) == ~v.nan /\ v.x < c

\* arr[mask] = np.nan
SetNan(arr, mask) == [k \in DOMAIN arr |-> IF mask[k] THEN NaN ELSE arr[k]]

\* heri_gc.py:740  (est / se) ** 2: nan, inf or a finite number
Chisq(est, se) ==
    [k \in DOMAIN est |->
        IF est[k].nan \/ se[k].nan THEN "nan"
        ELSE IF se[k].x = 0 THEN (IF est[k].x = 0 THEN "nan" ELSE "inf")
        ELSE "finite"]

\* heri_gc.py:735, 750
InvalidHeri(heri, heri_se) ==
    [k \in DOMAIN heri |->
        Gt(heri[k], 10) \/ Lt(heri[k], 0) \/ Gt(heri_se[k], 10) \/ Lt(heri_se[k], 0)]

\* heri_gc.py:753
InvalidGeneCor(gene_cor, gene_cor_se) ==
    [k \in DOMAIN gene_cor |->
        \/ Gt(gene_cor[k], 10) \/ Lt(gene_cor[k], -10)
        \/ Gt(gene_cor_se[k], 10) \/ Lt(gene_cor_se[k], 0)]

\* heri_gc.py:734-745  the rows of the returned table
FormatHeriOp(heri, heri_se) ==
    LET invalid_heri == InvalidHeri(heri, heri_se)
        h == SetNan(heri, invalid_heri)
        hs == SetNan(heri_se, invalid_heri)
        chisq == Chisq(h, hs)
    IN [k \in DOMAIN heri |->
          [index |-> k, heri |-> h[k], se |-> hs[k], chisq |-> chisq[k]]]

\* heri_gc.py:749-768  the rows of the returned table
FormatGeneCorY2Op(heri, heri_se, gene_cor, gene_cor_se) ==
    LET invalid_heri == InvalidHeri(heri, heri_se)
        h == SetNan(heri, invalid_heri)
        hs == SetNan(heri_se, invalid_heri)
        invalid_gene_cor == InvalidGeneCor(gene_cor, gene_cor_se)
        g == SetNan(gene_cor, invalid_gene_cor)
        gs == SetNan(gene_cor_se, invalid_gene_cor)
        heri_chisq == Chisq(h, hs)
        gene_cor_chisq == Chisq(g, gs)
    IN [k \in DOMAIN gene_cor |->
          [index |-> k, image_heri |-> h[k], image_heri_se |-> hs[k],
           image_heri_chisq |-> heri_chisq[k],
           image_y2_gc |-> g[k], image_y2_gc_se |-> gs[k],
           image_y2_gc_chisq |-> gene_cor_chisq[k]]]

\* estimates below, at the ends of, and above the valid range, and nan
HeriValues == {Num(-1), Num(10), Num(11), NaN}
SeValues == {Num(-1), Num(0), Num(11), NaN}
GeneCorValues == {Num(-11), Num(-10), Num(11), NaN}

FormatHeri ==
    /\ call.op = "none"
    /\ result' = FormatHeriOp(args.heri, args.heri_se)
    /\ call' = [op |-> "format_heri", err |-> "ok"]
    /\ UNCHANGED <<args, sumstats>>

FormatGeneCorY2 ==
    /\ call.op = "none"
    /\ result' = FormatGeneCorY2Op(args.heri, args.heri_se,
                                   args.gene_cor, args.gene_cor_se)
    /\ call' = [op |-> "format_gene_cor_y2", err |-> "ok"]
    /\ UNCHANGED <<args, sumstats>>

----------------------------------------------------------------------------
(* KernelSmooth.gcv: heig/ksm.py.  A score is nan, inf or a number.         *)

\* ksm.py:97  the weights of bw_cand, in tenths; candidate k is Weights[k] * bw_raw
Weights == <<2, 5, 10, 20, 50, 100>>

\* what smoother(bw) and lines 73-74 give for one candidate
Smoothed == {[isvalid |-> FALSE, score |-> 0]}
            \cup [isvalid : {TRUE}, score : 0..MaxScore]

\* lines 72-79 with a zero score kept as a number
ScoreOfKeepZero(sm) ==
    IF sm.isvalid THEN [kind |-> "num", x |-> sm.score]
    ELSE [kind |-> "inf", x |-> 0]

\* ksm.py:72-79
ScoreOf(sm) ==
    IF sm.isvalid
    THEN IF sm.score = 0 THEN [kind |-> "nan", x |-> 0]
         ELSE [kind |-> "num", x |-> sm.score]
    ELSE [kind |-> "inf", x |-> 0]

\* a <= b for scores that are not nan
ScoreLeq(a, b) ==
    \/ b.kind = "inf"
    \/ a.kind = "num" /\ b.kind = "num" /\ a.x <= b.x

NotNan(score) == {k \in DOMAIN score : score[k].kind # "nan"}

\* np.nanargmin: the first index of the least score that is not nan
\* (1-based); 0 stands for the ValueError of an all-nan or empty array
NanArgMin(score) ==
    LET cand == NotNan(score)
        least == {k \in cand : \A j \in cand : ScoreLeq(score[k], score[j])}
    IN IF cand = {} THEN 0 ELSE SortSet(least)[1]

\* ksm.py:69-79  the log lines of the loop
GcvLoopLog(score) ==
    LET RECURSIVE lines(_)
        lines(k) ==
            IF k = 0 THEN <<>>
            ELSE lines(k - 1) \o <<[msg |-> "doing", cii |-> k]>>
                 \o (IF score[k].kind = "inf" THEN <<>>
                     ELSE <<[msg |-> "score", cii |-> k]>>)
    IN lines(Len(score))

\* ksm.py:53-89
GcvOp(bw_list, smoothed) ==
    LET score == [k \in DOMAIN bw_list |-> ScoreOf(smoothed[k])]
        which_min == NanArgMin(score)
        log == GcvLoopLog(score)
    IN IF which_min = 0
       THEN [err |-> "ValueError", bw_opt |-> 0, log |-> log]
       ELSE [err |-> "ok", bw_opt |-> bw_list[which_min],
             log |-> log
                     \o (IF which_min = 1 \/ which_min = Len(bw_list)
                         THEN <<[msg |-> "WARNING", cii |-> which_min]>>
                         ELSE <<>>)
                     \o <<[msg |-> "optimal", cii |-> which_min]>>]

Gcv ==
    /\ call.op = "none"
    /\ LET r == GcvOp(args.bw_list, args.smoothed)
       IN /\ result' = [bw_opt |-> r.bw_opt, log |-> r.log]
          /\ call' = [op |-> "gcv", err |-> r.err]
    /\ UNCHANGED <<args, sumstats>>

----------------------------------------------------------------------------
(* generate_vtk.main.  A file name or path component is <<stem, ending>>;   *)
(* row r of file f holds the value <<f, r>> in each of its columns.          *)

NoName == <<"", "">>

\* str.endswith on a name
EndsWith(name, suffix) == name[2] = suffix

\* file[:-4]
StripTxt(name) ==
    <<name[1], CASE name[2] = "heri.txt" -> "heri"
                 [] name[2] = "gene_cor_y2.txt" -> "gene_cor_y2"
                 [] name[2] = "gene_cor.txt" -> "gene_cor"
                 [] OTHER -> name[2]>>

\* args.res.split('/')[-1]
LastComponent(path) == path[Len(path)]

\* generate_vtk.py:13  the listing filtered by the two suffixes
ResFilesOf(listing) ==
    SelectIdx(listing, {k \in DOMAIN listing :
                          \/ EndsWith(listing[k].name, "gene_cor_y2.txt")
                          \/ EndsWith(listing[k].name, "heri.txt")})

\* the column res_file[col] of a file
Column(file) == [r \in 1..file.nrow |-> <<file.id, r>>]

TemplateLine(k) == [kind |-> "template", name |-> NoName, v |-> <<0, k>>]

ScalarsLine(name) == [kind |-> "SCALARS", name |-> name, v |-> <<0, 0>>]

LookupTableLine(name) == [kind |-> "LOOKUP_TABLE", name |-> name, v |-> <<0, 0>>]

ValueLine(num) == [kind |-> "value", name |-> NoName, v |-> num]

\* generate_vtk.py:14-35  the loop from file k on; st.res is the variable
\* res, unbound (None) until a file with one of the two columns is read
RECURSIVE VtkLoop(_, _, _, _)
VtkLoop(a, res_files, k, st) ==
    IF k > Len(res_files) THEN st
    ELSE
      LET file == res_files[k]
          res == IF "heri" \in file.cols THEN <<Column(file)>>
                 ELSE IF "image_y2_gc" \in file.cols THEN <<Column(file)>>
                 ELSE st.res
          res_file_name == LastComponent(a.res)
          tempB == a.temp \o <<ScalarsLine(res_file_name),
                               LookupTableLine(res_file_name)>>
      IN IF res = None
         THEN [st EXCEPT !.err = "UnboundLocalError"]
         ELSE VtkLoop(a, res_files, k + 1,
                [err |-> "ok", res |-> res,
                 written |-> Append(st.written,
                     [path |-> StripTxt(file.name),
                      lines |-> tempB \o [r \in DOMAIN res[1] |-> ValueLine(res[1][r])]]),
                 log |-> Append(st.log, file.name)])

\* generate_vtk.py:11-35
VtkMain(a) ==
    VtkLoop(a, ResFilesOf(a.listing), 1,
            [err |-> "ok", res |-> None, written |-> <<>>, log |-> <<>>])

ResNames == {<<"a_", "heri.txt">>, <<"b_", "heri.txt">>,
             <<"a_", "gene_cor_y2.txt">>, <<"a_", "gene_cor.txt">>}

\* the columns a result table may have
ResCols == {{"heri", "se"}, {"image_heri", "image_y2_gc"}, {"SNP"}}

\* --res: a directory, given with a trailing slash, or named like a file in it
ResDirs == {<<<<"out", "">>, <<"run1", "">>>>,
            <<<<"out", "">>, <<"run1", "">>, NoName>>,
            <<<<"out", "">>, <<"a_", "heri.txt">>>>}

Templates == {[k \in 1..len |-> TemplateLine(k)] : len \in 1..2}

\* os.listdir: files with distinct names in any order
DistinctNames(l) == \A i, j \in DOMAIN l : i # j => l[i].name # l[j].name

\* file k of the listing has id k
WithIds(l) == [k \in DOMAIN l |-> [id |-> k, name |-> l[k].name,
                                    cols |-> l[k].cols, nrow |-> l[k].nrow]]

GenerateVtk ==
    /\ call.op = "none"
    /\ LET r == VtkMain(args)
       IN /\ result' = [written |-> r.written, log |-> r.log]
          /\ call' = [op |-> "generate_vtk", err |-> r.err]
    /\ UNCHANGED <<args, sumstats>>

----------------------------------------------------------------------------
(* The CLI entry points: the __main__ blocks of make_ld.py, heri_gc.py and  *)
(* generate_vtk.py.  args.entry is the script, args.raises what main does   *)
(* after writing args.main_lines lines; result is the log; call.op is the   *)
(* position in the block and call.err the exception in flight.              *)

Entries == {"make_ld", "heri_gc", "generate_vtk"}

\* what main does in the end: returns, or raises one of these
MainOutcomes == {"none", "ValueError", "KeyError"}

CliArgs == [entry : Entries, raises : MainOutcomes, main_lines : 0..MaxMainLines]

\* make_ld.py:133  --out is required=True (no other parser has a required option)
HasRequiredOption(entry) == entry = "make_ld"

\* heri_gc.py:918-920  only heri_gc has an except clause
HasExcept(entry) == entry = "heri_gc"

\* log.info(MASTHEAD) and, in generate_vtk, the arguments; then the try
\* statement is entered
CliStart ==
    /\ call.op = "none"
    /\ args \in CliArgs
    /\ result' = result \o <<"MASTHEAD">>
                 \o (IF args.entry = "generate_vtk" THEN <<"header">> ELSE <<>>)
    /\ call' = [op |-> IF args.entry = "generate_vtk" THEN "main" ELSE "try",
                err |-> "ok"]
    /\ UNCHANGED <<args, sumstats>>

\* defaults = vars(parser.parse_args('')) ... log.info(header): with a
\* required option argparse exits (SystemExit) on the empty argument list
CliHeader ==
    /\ call.op = "try"
    /\ IF HasRequiredOption(args.entry)
       THEN /\ call' = [op |-> "finally", err |-> "SystemExit"]
            /\ UNCHANGED result
       ELSE /\ call' = [op |-> "main", err |-> "ok"]
            /\ result' = Append(result, "header")
    /\ UNCHANGED <<args, sumstats>>

\* main(args, log) writes one line
CliMainLog ==
    /\ call.op = "main"
    /\ Count(result, "main") < args.main_lines
    /\ result' = Append(result, "main")
    /\ UNCHANGED <<args, sumstats, call>>

\* main returns or raises
CliMainEnd ==
    /\ call.op = "main"
    /\ Count(result, "main") = args.main_lines
    /\ call' = IF args.raises = "none" THEN [op |-> "finally", err |-> "ok"]
               ELSE IF HasExcept(args.entry)
                    THEN [op |-> "except", err |-> args.raises]
                    ELSE [op |-> "finally", err |-> args.raises]
    /\ UNCHANGED <<args, sumstats, result>>

\* except Exception: log.info(traceback.format_exc()); raise
CliExcept ==
    /\ call.op = "except"
    /\ result' = Append(result, "trace")
    /\ call' = [call EXCEPT !.op = "finally"]
    /\ UNCHANGED <<args, sumstats>>

\* finally: the two trailer lines; then the block is left, normally or with
\* the exception in flight
CliFinally ==
    /\ call.op = "finally"
    /\ result' = result \o <<"finished", "elapsed">>
    /\ call' = [call EXCEPT !.op = "exit"]
    /\ UNCHANGED <<args, sumstats>>

----------------------------------------------------------------------------
(* make_ld.main in merge mode.  args.lines is what the list file holds, one *)
(* prefix per line (each prefix stands for the LD files it names).  The     *)
(* branch that builds an LD matrix from a bfile is not entered: no input    *)
(* gives both --bfile and --partition without --ld-list.                    *)

\* make_ld.py:95  open(dir, 'r'): dir is no variable of main or of the
\* module, so it is the builtin function, and open raises TypeError
OpenDir == [err |-> "TypeError"]

\* make_ld.py:93-124
MakeLdMain(a) ==
    IF TruthyStr(a.ld_list)
    THEN [err |-> OpenDir.err, saved |-> None, log |-> <<>>]
    ELSE [err |-> "ValueError", saved |-> None, log |-> <<>>]

MakeLdArgs ==
    {a \in [ld_list : {None, <<"">>, <<"ld_list.txt">>},
            bfile : {None, <<"bfile">>},
            partition : {None, <<"partition.txt">>},
            out : {<<"out">>},
            lines : SeqsUpTo(MergeFiles, MaxMergeLen + 1)] :
        TruthyStr(a.ld_list) \/ ~(TruthyStr(a.bfile) /\ TruthyStr(a.partition))}

MakeLd ==
    /\ call.op = "none"
    /\ LET r == MakeLdMain(args)
       IN /\ result' = [saved |-> r.saved, log |-> r.log]
          /\ call' = [op |-> "make_ld", err |-> r.err]
    /\ UNCHANGED <<args, sumstats>>

----------------------------------------------------------------------------
(* make_ld.py, build mode: find_loc, partition_genome and the matrix that   *)
(* LDmatrixBED makes of the blocks.  Indices are 0-based as in the source;  *)
(* row k of a table is element k + 1 of its sequence.                       *)

RECURSIVE FindLocLoop(_, _, _, _)
\* make_ld.py:65-72  the while loop
FindLocLoop(num_list, target, l, r) ==
    IF l > r THEN r
    ELSE LET mid == (l + r) \div 2
         IN IF num_list[mid + 1] = target THEN mid
            ELSE IF num_list[mid + 1] > target
                 THEN FindLocLoop(num_list, target, l, mid - 1)
                 ELSE FindLocLoop(num_list, target, mid + 1, r)

\* make_ld.py:62-73
FindLoc(num_list, target) == FindLocLoop(num_list, target, 0, Len(num_list) - 1)

\* make_ld.py:41  list(bim.loc[bim['chr'] == chr, 'pos'])
PosOnChr(bim, chr) ==
    LET on == SelectIdx(bim, {k \in DOMAIN bim : bim[k].chr = chr})
    IN [k \in DOMAIN on |-> on[k].pos]

\* bim.index[abs_begin: abs_end], as 1-based rows; a slice is cut at the end
\* of the table
IndexSlice(bim, abs_begin, abs_end) ==
    {k \in DOMAIN bim : abs_begin < k /\ k <= abs_end}

\* make_ld.py:40-57  the pass for partition row i (from 0); begin0 is line
\* 42's begin and end1 line 43's end
PartitionPass(part, i, st, begin0, end1) ==
    LET begin == IF end1 < begin0 THEN -1 ELSE begin0
        first == st.abs_begin = 0 /\ st.abs_end = 0
        abs_begin == IF first THEN begin + 1 ELSE st.abs_end
        abs_end == IF first THEN end1 + 1 ELSE st.abs_end + (end1 - begin)
        rows == IndexSlice(st.bim, abs_begin, abs_end)
    IN IF end1 > begin
       THEN IF Cardinality(rows) # end1 - begin
            THEN [st EXCEPT !.err = "ValueError", !.end = end1]
            ELSE [st EXCEPT
                    !.num_snps_part = Append(st.num_snps_part, end1 - begin),
                    !.end = end1, !.abs_begin = abs_begin, !.abs_end = abs_end,
                    !.bim = [k \in DOMAIN st.bim |->
                               IF k \in rows
                               THEN [st.bim[k] EXCEPT
                                       !.block = <<i>>,
                                       !.block_idx = <<k - abs_begin - 1>>]
                               ELSE st.bim[k]]]
       ELSE [st EXCEPT !.end = end1, !.log = Append(st.log, i)]

RECURSIVE PartitionLoop(_, _, _)
\* make_ld.py:40-57  partition row i and the rows after it
PartitionLoop(part, i, st) ==
    IF i >= Len(part) \/ st.err # "ok" THEN st
    ELSE PartitionLoop(part, i + 1,
            PartitionPass(part, i, st, st.end,
                FindLoc(PosOnChr(st.bim, part[i + 1].chr), part[i + 1].end)))

\* make_ld.py:33-59
PartitionGenome(bim, part) ==
    PartitionLoop(part, 0,
        [err |-> "ok", num_snps_part |-> <<>>, end |-> -1,
         abs_begin |-> 0, abs_end |-> 0, log |-> <<>>,
         bim |-> [k \in DOMAIN bim |->
                    [chr |-> bim[k].chr, pos |-> bim[k].pos, SNP |-> k - 1,
                     block |-> None, block_idx |-> None]]])

RECURSIVE BedBlocks(_, _, _)
\* ldmatrix.py:250-256  snp_getter(num) for each num: the block of the next
\* num SNPs of the genotype file, named by their 0-based numbers; cursor is
\* the number of SNPs read so far and m the number in the file
BedBlocks(num_snps_part, cursor, mm) ==
    IF num_snps_part = <<>> THEN [err |-> "ok", data |-> <<>>]
    ELSE IF cursor + Head(num_snps_part) > mm
    THEN [err |-> "ValueError", data |-> <<>>]
    ELSE LET rest == BedBlocks(Tail(num_snps_part), cursor + Head(num_snps_part), mm)
         IN [err |-> rest.err,
             data |-> <<[c \in 1..Head(num_snps_part) |-> cursor + c - 1]>> \o rest.data]

\* make_ld.py:104-124  the build branch of main: the partition, the matrix,
\* and what ld.save writes
BuildLd(bim, part) ==
    LET pg == PartitionGenome(bim, part)
        ld == BedBlocks(pg.num_snps_part, 0, Len(bim))
    IN IF pg.err # "ok"
       THEN [err |-> pg.err, num_snps_part |-> pg.num_snps_part,
             ld_info |-> pg.bim, data |-> <<>>, log |-> pg.log]
       ELSE [err |-> ld.err, num_snps_part |-> pg.num_snps_part,
             ld_info |-> pg.bim, data |-> ld.data, log |-> pg.log]

\* the chromosomes of the genotype and partition files
BuildChrs == {1, 2}

\* a .bim table: SNPs in the order of chromosome and position
IsSortedBim(bim) ==
    \A k \in 1..(Len(bim) - 1) :
        \/ bim[k].chr < bim[k + 1].chr
        \/ bim[k].chr = bim[k + 1].chr /\ bim[k].pos < bim[k + 1].pos

\* a partition file: rows in the order of chromosome and end; it has a first
\* row (make_ld.py:79 reads header[0])
IsSortedPart(part) ==
    \A k \in 1..(Len(part) - 1) :
        \/ part[k].chr < part[k + 1].chr
        \/ part[k].chr = part[k + 1].chr /\ part[k].end < part[k + 1].end

BuildInputs(max_rows, max_part) ==
    {a \in [bim : SeqsUpTo([chr : BuildChrs, pos : 1..MaxPos], max_rows),
            part : SeqsUpTo([chr : BuildChrs, end : 0..MaxPos], max_part)] :
        IsSortedBim(a.bim) /\ IsSortedPart(a.part) /\ a.part # <<>>}

\* non-decreasing lists of positions and targets around them
FindLocInputs(max_rows) ==
    {a \in [num_list : SeqsUpTo(1..MaxPos, max_rows), target : 0..(MaxPos + 1)] :
        \A k \in 1..(Len(a.num_list) - 1) : a.num_list[k] <= a.num_list[k + 1]}

FindLocCall ==
    /\ call.op = "none"
    /\ result' = FindLoc(args.num_list, args.target)
    /\ call' = [op |-> "find_loc", err |-> "ok"]
    /\ UNCHANGED <<args, sumstats>>

Build ==
    /\ call.op = "none"
    /\ LET r == BuildLd(args.bim, args.part)
       IN /\ result' = r
          /\ call' = [op |-> "build", err |-> r.err]
    /\ UNCHANGED <<args, sumstats>>

----------------------------------------------------------------------------
(* ldmatrix.py, _merge_blocks: the groups of blocks left out together by    *)
(* the jackknife.  Block indices are 0-based as in the source.              *)

\* ldmatrix.py:219  the 200 of mean_size = sum(block_sizes) / 200
MergeGroups == 200

\* ldmatrix.py:226, 234  cur_size + block_size <= mean_size or
\* cur_size + block_size // 2 <= mean_size, with mean_size = total / 200
FitsGroup(cur_size, block_size, total) ==
    \/ MergeGroups * (cur_size + block_size) <= total
    \/ MergeGroups * (cur_size + block_size \div 2) <= total

\* ldmatrix.py:224-238  the pass for block i (from 0)
MergeBlocksPass(sizes, i, st) ==
    LET block_size == sizes[i + 1]
        fits == FitsGroup(st.cur_size, block_size, SumSeq(sizes))
    IN IF i < Len(sizes) - 1
       THEN IF fits
            THEN [st EXCEPT !.cur_group = Append(st.cur_group, i),
                            !.cur_size = st.cur_size + block_size]
            ELSE [st EXCEPT !.merged_blocks = Append(st.merged_blocks, st.cur_group),
                            !.cur_group = <<i>>,
                            !.cur_size = block_size]
       ELSE IF fits
            THEN [st EXCEPT !.cur_group = Append(st.cur_group, i),
                            !.merged_blocks = Append(st.merged_blocks,
                                                     Append(st.cur_group, i))]
            ELSE [st EXCEPT !.merged_blocks = Append(st.merged_blocks, <<i>>)]

RECURSIVE MergeBlocksLoop(_, _, _)
\* ldmatrix.py:224  for i, block_size in enumerate(block_sizes)
MergeBlocksLoop(sizes, i, st) ==
    IF i >= Len(sizes) THEN st
    ELSE MergeBlocksLoop(sizes, i + 1, MergeBlocksPass(sizes, i, st))

\* ldmatrix.py:206-240
MergeBlocks(sizes) ==
    MergeBlocksLoop(sizes, 0,
        [merged_blocks |-> <<>>, cur_size |-> 0, cur_group |-> <<>>]).merged_blocks

\* block sizes: small ones and one large enough to close a group
BlockSizeChoices == (1..MaxBlockSize) \cup {MergeGroups * MaxBlockSize}

MergeBlocksInputs(max_blocks) ==
    [block_sizes : SeqsUpTo(BlockSizeChoices, max_blocks) \ {<<>>}]

MergeBlocksCall ==
    /\ call.op = "none"
    /\ result' = MergeBlocks(args.block_sizes)
    /\ call' = [op |-> "_merge_blocks", err |-> "ok"]
    /\ UNCHANGED <<args, sumstats>>

----------------------------------------------------------------------------
(* ldmatrix.py, _extract_by_idxs on its own: a block of `size` SNPs and the *)
(* 0-based indices of the SNPs to keep, in ascending order                  *)

ExtractIdxInputs(max_dim) ==
    UNION {[size : {s}, idxs : {SortSet(I) : I \in (SUBSET (0..(s - 1))) \ {{}}}] :
              s \in 1..max_dim}

ExtractIdxCall ==
    /\ call.op = "none"
    /\ LET r == ExtractByIdxs(MkData(<<args.size>>)[1], args.size, args.idxs)
       IN /\ result' = r
          /\ call' = [op |-> "_extract_by_idxs", err |-> r.err]
    /\ UNCHANGED <<args, sumstats>>

----------------------------------------------------------------------------
(* heri_gc.py, _lobo_estimate and _jackknife for one estimate (N = 1).      *)
(* Estimates are integers; the mean of k values is kept as their sum, so    *)
(* the results are the estimate times k and the squared se times k^3.       *)

\* total_est with nothing subtracted
LoboKeepAll(total_est, block_est, blocks) == total_est

\* heri_gc.py:665-667  total_est minus block_est[ii] for ii in blocks
LoboOf(total_est, block_est, blocks) ==
    total_est - SumSeq([b \in DOMAIN blocks |-> block_est[blocks[b] + 1]])

\* heri_gc.py:661-670
LoboEstimate(total_est, block_est, merged_blocks) ==
    [g \in DOMAIN merged_blocks |-> LoboOf(total_est, block_est, merged_blocks[g])]

\* heri_gc.py:652-658  with mean_lobo = SumSeq(lobo) / n_blocks:
\* estimate = n_blocks * total - (n_blocks - 1) * mean_lobo, times n_blocks;
\* se ** 2 = (n_blocks - 1) / n_blocks * sum((lobo - mean_lobo) ** 2), times
\* n_blocks ** 3
Jackknife(total, lobo, n_blocks) ==
    [estimate_xk |-> n_blocks * n_blocks * total - (n_blocks - 1) * SumSeq(lobo),
     se2_xk3 |-> (n_blocks - 1) *
                 SumSeq([g \in DOMAIN lobo |->
                           (n_blocks * lobo[g] - SumSeq(lobo)) *
                           (n_blocks * lobo[g] - SumSeq(lobo))])]

\* the groups of consecutive block indices (from 0) with the given sizes
GroupsOf(sizes) ==
    [g \in DOMAIN sizes |->
        [b \in 1..sizes[g] |-> SumSeq(SubSeq(sizes, 1, g - 1)) + b - 1]]

JackknifeInputs(max_blocks, max_est, max_total) ==
    UNION {[total : (-max_total)..max_total,
            block_est : [1..nb -> (-max_est)..max_est],
            merged_blocks : {GroupsOf(c) : c \in Compositions(nb)}] :
              nb \in 1..max_blocks}

\* heri_gc.py:578-612  the chain _lobo_estimate, then _jackknife with
\* n_blocks = len(merged_blocks)
JackknifeCall ==
    /\ call.op = "none"
    /\ result' = Jackknife(args.total,
                           LoboEstimate(args.total, args.block_est, args.merged_blocks),
                           Len(args.merged_blocks))
    /\ call' = [op |-> "_jackknife", err |-> "ok"]
    /\ UNCHANGED <<args, sumstats>>

----------------------------------------------------------------------------
(* heri_gc.py, read_process_data without --extract and without --y2: the    *)
(* LDR GWAS object, the LD matrix and the LD-inverse matrix, each cut to    *)
(* the common SNPs.  A row of the Z-score matrix is named by its SNP.       *)

RECURSIVE SortGwas(_, _)
\* heri_gc.py:37  gwas_data.sort_values(by=['CHR', 'BP', 'SNP']) for SNPs of
\* one chromosome; bp[s] is the position of SNP s
SortGwas(S, bp) ==
    IF S = {} THEN <<>>
    ELSE LET first == CHOOSE s \in S :
                         \A t \in S : bp[s] < bp[t] \/ (bp[s] = bp[t] /\ s <= t)
         IN <<first>> \o SortGwas(S \ {first}, bp)

\* heri_gc.py:148-154  GWAS.extract_snps: the rows whose SNP is kept
GwasExtractSnps(z_snps, keep_snps) ==
    SelectIdx(z_snps, {k \in DOMAIN z_snps : z_snps[k] \in keep_snps})

\* the files of an LD matrix whose info rows are the SNPs of ld_snps in that
\* order, in blocks of the given sizes labelled from 0
LdFileOf(ld_snps, sizes) ==
    [info |-> [i \in DOMAIN ld_snps |->
                 [MkInfo([k \in DOMAIN ld_snps |-> 1], sizes, 1)[i]
                    EXCEPT !.SNP = ld_snps[i]]],
     data |-> MkData(sizes)]

\* heri_gc.py:340-415  a.gwas: the SNPs of the LDR GWAS files; a.ld and
\* a.ld_inv: the files of the two matrices
ReadProcessData(a) ==
    LET z_snps == SortGwas(a.gwas, a.bp)
        ld == LoadOp(a.ld)
        ld_inv == LoadOp(a.ld_inv)
        common == GetCommonSnps(<<[has_snp |-> TRUE, SNP |-> Range(z_snps)],
                                  [has_snp |-> TRUE, SNP |-> Range(Col(a.ld.info, "SNP"))],
                                  [has_snp |-> TRUE, SNP |-> Range(Col(a.ld_inv.info, "SNP"))],
                                  [has_snp |-> FALSE, SNP |-> {}]>>)
    IN IF ld.err # "ok" THEN [err |-> ld.err]
       ELSE IF ld_inv.err # "ok" THEN [err |-> ld_inv.err]
       ELSE IF common.err # "ok" THEN [err |-> common.err]
       ELSE IF ExtractOp(ld.self, common.common_snps).err # "ok"
       THEN [err |-> ExtractOp(ld.self, common.common_snps).err]
       ELSE IF ExtractOp(ld_inv.self, common.common_snps).err # "ok"
       THEN [err |-> ExtractOp(ld_inv.self, common.common_snps).err]
       ELSE [err |-> "ok",
             z_snps |-> GwasExtractSnps(z_snps, common.common_snps),
             ld |-> ExtractOp(ld.self, common.common_snps).self,
             ld_inv |-> ExtractOp(ld_inv.self, common.common_snps).self]

\* the positions of the SNPs
CommonPositions == {1, 2}

\* the SNPs of the matrix are in the order of their positions, as in the
\* genotype file; SNPs at one position are in either order
InPositionOrder(ld_snps, bp) ==
    \A k \in 1..(Len(ld_snps) - 1) : bp[ld_snps[k]] <= bp[ld_snps[k + 1]]

Distinct(s) == Cardinality(Range(s)) = Len(s)

\* the two matrices are made of the same SNPs with the same partition
ReadProcessInputs(max_snps) ==
    UNION {{[gwas |-> S, bp |-> bp,
             ld |-> LdFileOf(ld_snps, sizes),
             ld_inv |-> LdFileOf(ld_snps, sizes)] :
               S \in (SUBSET (1..max_snps)) \ {{}},
               sizes \in Compositions(Len(ld_snps))} :
           ld_snps \in {s \in SeqsUpTo(1..max_snps, max_snps) \ {<<>>} : Distinct(s)},
           bp \in [1..max_snps -> CommonPositions]}

ReadProcess ==
    /\ call.op = "none"
    /\ LET r == ReadProcessData(args)
       IN /\ result' = r
          /\ call' = [op |-> "read_process_data", err |-> r.err]
    /\ UNCHANGED <<args, sumstats>>

----------------------------------------------------------------------------
(* Specifications *)

InitLD == LDIdle /\ BedIdle /\ FnIdle /\ call = NoCall

NextLD ==
    \/ \E f \in LDFiles : Load(f) /\ UNCHANGED <<bedVars, fnVars>>
    \/ \E ld_files \in SeqsUpTo(MergeFiles, MaxMergeLen) :
          Merge(ld_files) /\ UNCHANGED <<bedVars, fnVars>>
    \/ \E snps \in SUBSET SNPs : Extract(snps) /\ UNCHANGED <<bedVars, fnVars>>
    \/ \E prop \in Props, inv \in BOOLEAN : Truncate(prop, inv) /\ UNCHANGED <<bedVars, fnVars>>

SpecLD == InitLD /\ [][NextLD]_vars

InitBED == bed_in \in BedInputs(MaxSamples) /\ BedNew /\ LDIdle /\ FnIdle /\ call = NoCall

NextBED ==
    \/ Construct /\ UNCHANGED <<ldVars, fnVars>>
    \/ \E num \in 0..(MaxSnps + 1) : NextSNPs(num) /\ UNCHANGED <<ldVars, fnVars>>
    \/ GenSNPs /\ UNCHANGED <<ldVars, fnVars>>

SpecBED == InitBED /\ [][NextBED]_vars

FnInit(inputs) ==
    /\ args \in inputs
    /\ result = <<>>
    /\ sumstats = <<>>
    /\ LDIdle /\ BedIdle /\ call = NoCall

InitPrune == FnInit(PruneInputs)

NextPrune == Prune /\ UNCHANGED <<ldVars, bedVars>>

SpecPrune == InitPrune /\ [][NextPrune]_vars

InitStrand == FnInit([A1 : Alleles, A2 : Alleles])

NextStrand == StrandFilter /\ UNCHANGED <<ldVars, bedVars>>

SpecStrand == InitStrand /\ [][NextStrand]_vars

InitMedian == FnInit(MedianInputs(MaxData))

NextMedian == Median /\ UNCHANGED <<ldVars, bedVars>>

SpecMedian == InitMedian /\ [][NextMedian]_vars

InitCommon == FnInit(SeqsUpTo(SnpArgs, MaxLists))

NextCommon == Common /\ UNCHANGED <<ldVars, bedVars>>

SpecCommon == InitCommon /\ [][NextCommon]_vars

InitCheck == FnInit(CheckInputArgs(GoodLdrArgs))

NextCheck == Check /\ UNCHANGED <<ldVars, bedVars>>

SpecCheck == InitCheck /\ [][NextCheck]_vars

InitRawdata == FnInit(RawInputs(MaxFiles))

NextRawdata == FromRawdata /\ UNCHANGED <<ldVars, bedVars>>

SpecRawdata == InitRawdata /\ [][NextRawdata]_vars

InitExtract ==
    /\ sumstats \in GwasObjects
    /\ args = <<>> /\ result = <<>>
    /\ LDIdle /\ BedIdle /\ call = NoCall

NextExtract ==
    \E keep_snps \in KeepSnps : ExtractSnps(keep_snps) /\ UNCHANGED <<ldVars, bedVars>>

SpecExtract == InitExtract /\ [][NextExtract]_vars

InitAlign == FnInit([gwas1 : EstGwasObjects, gwas2 : EstGwasObjects])

NextAlign == Align /\ UNCHANGED <<ldVars, bedVars>>

SpecAlign == InitAlign /\ [][NextAlign]_vars

InitFormat ==
    \E len \in 1..MaxEst :
        FnInit([heri : [1..len -> HeriValues], heri_se : [1..len -> SeValues],
                gene_cor : [1..len -> GeneCorValues],
                gene_cor_se : [1..len -> SeValues]])

NextFormat ==
    \/ FormatHeri /\ UNCHANGED <<ldVars, bedVars>>
    \/ FormatGeneCorY2 /\ UNCHANGED <<ldVars, bedVars>>

SpecFormat == InitFormat /\ [][NextFormat]_vars

InitGcv ==
    \E len \in 1..Len(Weights) :
        FnInit([bw_list : {SubSeq(Weights, 1, len)},
                smoothed : [1..len -> Smoothed]])

NextGcv == Gcv /\ UNCHANGED <<ldVars, bedVars>>

SpecGcv == InitGcv /\ [][NextGcv]_vars

InitVtk ==
    \E l \in SeqsUpTo([name : ResNames, cols : ResCols, nrow : 1..MaxResRows],
                      MaxResFiles) :
        /\ DistinctNames(l)
        /\ FnInit([res : ResDirs, temp : Templates, listing : {WithIds(l)}])

NextVtk == GenerateVtk /\ UNCHANGED <<ldVars, bedVars>>

SpecVtk == InitVtk /\ [][NextVtk]_vars

InitCli == FnInit(CliArgs)

NextCli ==
    \/ CliStart /\ UNCHANGED <<ldVars, bedVars>>
    \/ CliHeader /\ UNCHANGED <<ldVars, bedVars>>
    \/ CliMainLog /\ UNCHANGED <<ldVars, bedVars>>
    \/ CliMainEnd /\ UNCHANGED <<ldVars, bedVars>>
    \/ CliExcept /\ UNCHANGED <<ldVars, bedVars>>
    \/ CliFinally /\ UNCHANGED <<ldVars, bedVars>>

SpecCli == InitCli /\ [][NextCli]_vars

InitMakeLd == FnInit(MakeLdArgs)

NextMakeLd == MakeLd /\ UNCHANGED <<ldVars, bedVars>>

SpecMakeLd == InitMakeLd /\ [][NextMakeLd]_vars

InitBuild == FnInit(BuildInputs(MaxBimRows, MaxPartRows))

NextBuild == Build /\ UNCHANGED <<ldVars, bedVars>>

SpecBuild == InitBuild /\ [][NextBuild]_vars

InitFindLoc == FnInit(FindLocInputs(MaxBimRows))

NextFindLoc == FindLocCall /\ UNCHANGED <<ldVars, bedVars>>

SpecFindLoc == InitFindLoc /\ [][NextFindLoc]_vars

InitMergeBlocks == FnInit(MergeBlocksInputs(MaxJackBlocks))

NextMergeBlocks == MergeBlocksCall /\ UNCHANGED <<ldVars, bedVars>>

SpecMergeBlocks == InitMergeBlocks /\ [][NextMergeBlocks]_vars

InitExtractIdx == FnInit(ExtractIdxInputs(MaxBlockDim))

NextExtractIdx == ExtractIdxCall /\ UNCHANGED <<ldVars, bedVars>>

SpecExtractIdx == InitExtractIdx /\ [][NextExtractIdx]_vars

InitJackknife == FnInit(JackknifeInputs(MaxLoboBlocks, MaxBlockEst, MaxTotal))

NextJackknife == JackknifeCall /\ UNCHANGED <<ldVars, bedVars>>

SpecJackknife == InitJackknife /\ [][NextJackknife]_vars

InitReadProcess ==
    /\ FnInit(ReadProcessInputs(MaxCommonSnps))
    /\ InPositionOrder(Col(args.ld.info, "SNP"), args.bp)

NextReadProcess == ReadProcess /\ UNCHANGED <<ldVars, bedVars>>

SpecReadProcess == InitReadProcess /\ [][NextReadProcess]_vars

----------------------------------------------------------------------------
(* Properties of the LD matrix engine, checked under SpecLD *)

\* C1: once truncate has succeeded, every later merge, extract or truncate
\* raises and leaves data, ld_info, block_sizes, block_ranges and the
\* truncated flag as they were; the flag never returns to FALSE.
C1_TruncationOneWay ==
    [][is_truncated =>
          /\ call'.err # "ok"
          /\ UNCHANGED <<data, ld_info, block_sizes, block_ranges, is_truncated>>]_vars

\* C1 witness: a merge attempted on a truncated matrix has raised
C1_Witness ==
    /\ is_truncated
    /\ Len(data) > 0
    /\ call = [op |-> "merge", err |-> "truncated"]

LastChr(info) == info[Len(info)].CHR

\* C2: merge raises the ordering error exactly when the chromosome of the
\* incoming matrix's first row is not strictly greater than the chromosome of
\* the current matrix's last row (chr1 then chr2 passes the order check).
C2_MergeOrderCheck ==
    [][\A ld_files \in SeqsUpTo(MergeFiles, MaxMergeLen) :
          (/\ Merge(ld_files)
           /\ ~is_truncated
           /\ ld_files # <<>>
           /\ ld_info # <<>>
           /\ LoadOp(Head(ld_files)).err = "ok")
          => (call'.err = "order"
                <=> Head(ld_files).info[1].CHR <= LastChr(ld_info))]_vars

NonDecreasing(s) == \A i \in 1..(Len(s) - 1) : s[i] <= s[i + 1]

\* C3: loading fails exactly when the chromosome column, read in row order,
\* is not non-decreasing.
C3_LoadChecksChrOrder ==
    [][\A f \in LDFiles :
          Load(f) => (call'.err = "unsorted" <=> ~NonDecreasing(Col(f.info, "CHR")))]_vars

----------------------------------------------------------------------------
(* Properties of the .bed parser, checked under SpecBED *)

LeastMultipleOf4(k) == k + ((4 - (k % 4)) % 4)

HeaderAndLengthOk ==
    LET bytes == bed_in.file.bytes
    IN /\ Len(bytes) >= 3
       /\ FromFile(SubSeq(bytes, 1, 2)) = <<0, 0, 1, 1, 0, 1, 1, 0, 1, 1, 0, 1, 1, 0, 0, 0>>
       /\ FromFile(SubSeq(bytes, 3, 3)) = <<1, 0, 0, 0, 0, 0, 0, 0>>
       /\ 8 * (Len(bytes) - 3) = 2 * bed_in.m * LeastMultipleOf4(bed_in.n)
       /\ LeastMultipleOf4(bed_in.n) % 4 = 0
       /\ LeastMultipleOf4(bed_in.n) >= bed_in.n
       /\ LeastMultipleOf4(bed_in.n) < bed_in.n + 4

\* C6 as stated: construction succeeds exactly when the magic number, the
\* mode byte and the bit length 2*m*nru are right.
C6_ConstructIffHeaderAndLength ==
    bed_state # "new" => (bed_state = "ok" <=> HeaderAndLengthOk)

\* C6 amended: construction succeeds exactly when the file name ends in .bed
\* and the magic number, the mode byte and the bit length 2*m*nru are right.
C6_ConstructIffSuffixHeaderAndLength ==
    bed_state # "new" =>
        (bed_state = "ok" <=> (bed_in.file.suffix_ok /\ HeaderAndLengthOk))

\* C6 witness: a file of 5 samples, padded to 8, has been accepted
C6_Witness ==
    /\ bed_state = "ok"
    /\ bed_in.n % 4 = 1
    /\ bed_in.n > 4
    /\ bed_in.m >= 1
    /\ nru = bed_in.n + 3

IsEncodingOfG == \E pad \in Genotypes : bed_in.file.bytes = EncodeBed(bed_in.G, pad)

\* C7: decoding the encoding of a genotype matrix returns the matrix: every
\* column nextSNPs returns and every vector gen_SNPs yields is the column of
\* the original matrix, without padding entries and with missing as nan.
C7_RoundTrip ==
    (bed_state = "ok" /\ IsEncodingOfG) =>
        /\ \A j \in DOMAIN returned : returned[j] = bed_in.G[j]
        /\ call.op = "gen_SNPs" =>
              yielded = [c \in 1..bed_in.m |-> <<c - 1, bed_in.G[c]>>]

\* C7 witness: a whole matrix with a missing entry, padded with a nonzero
\* code, has been read back by nextSNPs and by gen_SNPs
C7_Witness ==
    /\ bed_state = "ok"
    /\ bed_in.m = 2
    /\ bed_in.n % 4 # 0
    /\ Len(returned) = bed_in.m
    /\ returned = bed_in.G
    /\ \E c \in 1..bed_in.m : \E i \in 1..bed_in.n : bed_in.G[c][i] = "nan"
    /\ bed_in.file.bytes # EncodeBed(bed_in.G, "0")
    /\ call.op = "gen_SNPs"

\* C8: a nextSNPs(num) call raises exactly when num exceeds the number of
\* SNPs not yet returned; a successful call advances the cursor by num and
\* returns the next num SNPs of the file, none skipped and none repeated.
C8_NextSNPsSequential ==
    [][\A num \in 0..(MaxSnps + 1) :
          NextSNPs(num) =>
              /\ call'.err # "ok" <=> num > m - Len(returned)
              /\ call'.err = "ok" =>
                    /\ _currentSNP' = _currentSNP + num
                    /\ returned' = returned \o
                          [j \in 1..num |-> bed_in.G[Len(returned) + j]]]_vars

----------------------------------------------------------------------------
(* Claims about get_common_snps, _check_median and SNP pruning *)

GivenSnps == {args[i].SNP : i \in {j \in DOMAIN args : args[j].has_snp}}

Intersection == {x \in 1..MaxSnpId : \A S \in GivenSnps : x \in S}

\* C4: get_common_snps returns exactly the intersection of the SNP
\* collections of its non-None arguments, and raises exactly when that
\* intersection is empty or no argument was given.
C4_CommonIsIntersection ==
    call.op = "get_common_snps" =>
        /\ call.err = "ok" <=> (GivenSnps # {} /\ Intersection # {})
        /\ call.err = "ok" => result = Intersection

\* C5: _check_median raises when the median of the effect column differs
\* from the null value by more than 0.1 in either direction, and accepts a
\* column whose median is the null value.
C5_MedianWithinTolerance ==
    call.op = "_check_median" /\ result # <<>> =>
        LET dev == result[1] - 2 * args.null_value
        IN /\ (10 * dev > 8 \/ 10 * dev < -8) => call.err = "ValueError"
           /\ dev = 0 => call.err = "ok"

IsSubTable(t, u) == \E I \in SUBSET DOMAIN u : t = SelectIdx(u, I)

\* C9: in _prune_snps no step adds a row (the table after each step is a
\* selection of the rows before it), 'no SNP remaining' is raised at the
\* first table that is empty and only then, and a table that is returned is
\* never empty and has been through every step.
C9_PruneShrinksOrRaises ==
    call.op = "_prune_snps" =>
        LET tables == result.tables
            last == tables[Len(tables)]
        IN /\ tables[1] = args.gwas
           /\ \A i \in 2..Len(tables) :
                 /\ IsSubTable(tables[i], tables[i - 1])
                 /\ Len(tables[i]) <= Len(tables[i - 1])
           /\ \A i \in 1..(Len(tables) - 1) : tables[i] # <<>>
           /\ call.err \in {"ok", "no SNP remaining"}
           /\ call.err = "no SNP remaining" <=> last = <<>>
           /\ call.err = "ok" =>
                 /\ result.gwas = last /\ result.gwas # <<>>
                 /\ IsSubTable(result.gwas, args.gwas)
                 /\ Len(tables) = 1 + Len(PruneSteps(args.maf_min, args.info_min))

C9_Witness ==
    /\ call.op = "_prune_snps" /\ call.err = "no SNP remaining"
    /\ Len(args.gwas) = 2
    /\ Len(result.tables) = 4
    /\ Len(result.tables[3]) = 2

Acgt == {"A", "C", "G", "T"}

ComplementPairs == {<<"A", "T">>, <<"T", "A">>, <<"C", "G">>, <<"G", "C">>}

\* C10: the strand filter of both pruning routines keeps a SNP exactly when
\* both alleles are single characters in {A, C, G, T} and A1 is not the
\* complement of A2: A/T, T/A, C/G and G/C are dropped, equal alleles such
\* as A/A are kept.
C10_StrandFilter ==
    call.op = "strand" =>
        LET keep == /\ Len(args.A1) = 1 /\ Len(args.A2) = 1
                    /\ args.A1[1] \in Acgt /\ args.A2[1] \in Acgt
                    /\ <<args.A2[1], args.A1[1]>> \notin ComplementPairs
        IN result.sumstats = keep /\ result.heri_gc = keep

C10_Witness ==
    /\ call.op = "strand"
    /\ args.A1 = <<"A">> /\ args.A2 = <<"A">>
    /\ result.sumstats /\ result.heri_gc

----------------------------------------------------------------------------
(* Claims about check_input, checked under SpecCheck *)

FilterActive(filter) == filter \in Range(PruneSteps(result.maf_min, result.info_min))

\* C11: after check_input returns, the MAF (INFO) filter is active exactly
\* when its column was given; a column without a threshold gets 0.01 (0.9);
\* a column with a threshold keeps a threshold strictly inside (0, 0.5)
\* ((0, 1)); a threshold without its column, 0 included, is reset to None so
\* that pruning never applies that filter.
C11_FilterIffColumn ==
    (call.op = "check_input" /\ call.err = "ok") =>
        /\ FilterActive("maf") <=> args.maf_col # None
        /\ FilterActive("info") <=> args.info_col # None
        /\ (args.maf_col # None /\ args.maf_min = None) => result.maf_min = <<1>>
        /\ (args.info_col # None /\ args.info_min = None) => result.info_min = <<9>>
        /\ (args.maf_col # None /\ args.maf_min # None) =>
              (result.maf_min = args.maf_min /\ 0 < args.maf_min[1] /\ args.maf_min[1] < 50)
        /\ (args.info_col # None /\ args.info_min # None) =>
              (result.info_min = args.info_min /\ 0 < args.info_min[1] /\ args.info_min[1] < 10)
        /\ args.maf_col = None => result.maf_min = None
        /\ args.info_col = None => result.info_min = None

RequiredOk ==
    /\ (args.ldr_gwas # None) # (args.y2_gwas # None)
    /\ args.snp_col # None /\ args.a1_col # None /\ args.a2_col # None
    /\ args.n # None \/ args.n_col # None
    /\ args.ldr_gwas # None =>
          /\ args.effect_col # None /\ args.se_col # None
          /\ args.chr_col # None /\ args.pos_col # None
    /\ args.y2_gwas # None =>
          \/ args.z_col # None
          \/ args.effect_col # None /\ args.se_col # None
          \/ args.effect_col # None /\ args.p_col # None

\* C12: check_input accepts a configuration only if exactly one of
\* --ldr-gwas and --y2-gwas is given, SNP, A1 and A2 columns are given, a
\* sample size or its column is given, LDR mode has effect, SE, chromosome
\* and position columns, and y2 mode has Z or effect + SE or effect + p;
\* every other configuration raises.
C12_AcceptsOnlyComplete ==
    call.op = "check_input" => (call.err = "ok" => RequiredOk)

C12_Witness ==
    /\ call.op = "check_input" /\ call.err = "ok"
    /\ args.y2_gwas # None /\ args.z_col = None /\ args.se_col = None
    /\ args.p_col # None

----------------------------------------------------------------------------
(* Claims about from_rawdata_ldr, checked under SpecRawdata *)

\* the files whose pruning decides which SNPs are retained
PrunedFiles == IF args.fast_sumstats THEN {1} ELSE DOMAIN args.rows

\* SNP snp survives the pruning of file number i
Survives(snp, i) ==
    LET pruned == PruneSnps(WithN(ReadFile(args.rows[i], i, TRUE)), None, None)
    IN pruned.err = "ok" /\ snp \in Range(Col(pruned.gwas, "SNP"))

SameSnpsInEveryFile == \A i \in DOMAIN args.rows :
    Col(args.rows[i], "SNP") = Col(args.rows[1], "SNP")

\* C13: from_rawdata_ldr returns matrices with one row per row of the
\* SNP-info table; the retained SNPs are the SNPs of the first file that
\* survive pruning in every file (in fast mode: in the first file), in the
\* first file's order; column i of row k holds file i's value for the SNP in
\* info row k.  Files with the same SNPs of which one survives everywhere
\* are processed without error.
C13_RawdataAligned ==
    call.op = "from_rawdata_ldr" =>
        /\ (SameSnpsInEveryFile
            /\ \E k \in DOMAIN args.rows[1] :
                  \A i \in DOMAIN args.rows : Survives(args.rows[1][k].SNP, i))
           => call.err = "ok"
        /\ call.err = "ok" =>
              /\ Len(result.beta) = Len(result.snpinfo)
              /\ Len(result.se) = Len(result.snpinfo)
              /\ Col(result.snpinfo, "SNP") =
                    Col(SelectIdx(args.rows[1],
                           {k \in DOMAIN args.rows[1] :
                               \A i \in PrunedFiles : Survives(args.rows[1][k].SNP, i)}),
                        "SNP")
              /\ \A k \in DOMAIN result.snpinfo : \A i \in DOMAIN args.rows :
                    \E j \in DOMAIN args.rows[i] :
                       /\ args.rows[i][j].SNP = result.snpinfo[k].SNP
                       /\ result.se[k][i] = 10 * i + j

----------------------------------------------------------------------------
(* Claims about extract_snps, checked under SpecExtract *)

\* every matrix row holds the statistics stored for the SNP of its info row
Aligned ==
    LET info == sumstats.snpinfo
    IN IF sumstats.z_is_none
       THEN /\ sumstats.beta = [k \in DOMAIN info |-> BetaOf(info[k].POS)]
            /\ sumstats.se = [k \in DOMAIN info |-> SeOf(info[k].POS)]
            /\ sumstats.z = None
       ELSE /\ sumstats.z = [k \in DOMAIN info |-> ZOf(info[k].POS)]
            /\ sumstats.beta = None /\ sumstats.se = None

\* C14: after any sequence of extract_snps calls on an aligned GWAS the
\* matrices are still aligned with the info table, each call retains exactly
\* the SNPs that were present before it and are in keep_snps, and the info
\* table has no helper column.
C14_ExtractKeepsAlignment ==
    [][\A keep_snps \in KeepSnps :
          ExtractSnps(keep_snps) =>
              /\ Aligned'
              /\ Range(Col(sumstats'.snpinfo, "SNP")) =
                    Range(Col(sumstats.snpinfo, "SNP")) \cap Range(keep_snps.SNP)
              /\ \A k \in DOMAIN sumstats'.snpinfo :
                    DOMAIN sumstats'.snpinfo[k] = {"SNP", "POS"}]_vars

\* C14 witness: extract_snps has returned two rows in the reverse of their
\* original order, with the beta rows following them
C14_Witness ==
    /\ call.op = "extract_snps"
    /\ sumstats.z_is_none
    /\ Len(sumstats.snpinfo) = 2
    /\ sumstats.snpinfo[1].POS > sumstats.snpinfo[2].POS
    /\ sumstats.beta = <<BetaOf(sumstats.snpinfo[1].POS), BetaOf(sumstats.snpinfo[2].POS)>>

----------------------------------------------------------------------------
(* Claims about align_alleles, checked under SpecAlign *)

\* C15: align_alleles raises when the two SNP sequences differ in length or
\* at any position; otherwise it returns gwas2 with the z-scores negated at
\* exactly the rows where the two A1 alleles differ, with gwas1's A1, and
\* leaves gwas1 unchanged.
C15_AlignAlleles ==
    call.op = "align_alleles" =>
        /\ call.err # "ok" <=> args.gwas1.SNP # args.gwas2.SNP
        /\ result.gwas1 = args.gwas1
        /\ call.err = "ok" =>
              /\ result.gwas2.A1 = args.gwas1.A1
              /\ result.gwas2.SNP = args.gwas2.SNP
              /\ DOMAIN result.gwas2.z_mat = DOMAIN args.gwas2.z_mat
              /\ \A i \in DOMAIN args.gwas2.z_mat : \A j \in 1..2 :
                    result.gwas2.z_mat[i][j] =
                       IF args.gwas1.A1[i] # args.gwas2.A1[i]
                       THEN 0 - args.gwas2.z_mat[i][j]
                       ELSE args.gwas2.z_mat[i][j]

\* C15 witness: of two SNPs, the z-scores of the one whose A1 differs were
\* negated and those of the other were kept
C15_Witness ==
    /\ call.op = "align_alleles" /\ call.err = "ok"
    /\ Len(args.gwas1.SNP) = 2
    /\ args.gwas1.A1[1] # args.gwas2.A1[1]
    /\ args.gwas1.A1[2] = args.gwas2.A1[2]
    /\ result.gwas2.z_mat = <<Negated(ZRow(1)), ZRow(2)>>

----------------------------------------------------------------------------
(* Claims about the result tables, checked under SpecFormat *)

\* an estimate and its standard error are both missing, or both in range
\* and unchanged
PairOk(est, se, est_in, se_in, lowest) ==
    \/ est.nan /\ se.nan
    \/ /\ ~est.nan /\ ~se.nan
       /\ lowest <= est.x /\ est.x <= 10
       /\ 0 <= se.x /\ se.x <= 10
       /\ est = est_in /\ se = se_in

\* C16: in the tables of format_heri and format_gene_cor_y2 every row has
\* heritability and its SE both missing, or heritability in [0,1] with SE in
\* [0,1], both unchanged; likewise genetic correlation in [-1,1] and its SE;
\* the two pairs of a row are judged independently.
C16_OutOfRangeBothMissing ==
    /\ call.op = "format_heri" =>
          \A k \in DOMAIN result :
             PairOk(result[k].heri, result[k].se, args.heri[k], args.heri_se[k], 0)
    /\ call.op = "format_gene_cor_y2" =>
          \A k \in DOMAIN result :
             /\ PairOk(result[k].image_heri, result[k].image_heri_se,
                       args.heri[k], args.heri_se[k], 0)
             /\ PairOk(result[k].image_y2_gc, result[k].image_y2_gc_se,
                       args.gene_cor[k], args.gene_cor_se[k], -10)

----------------------------------------------------------------------------
(* Claims about bandwidth selection, checked under SpecGcv *)

\* the score the claim gives a candidate: infinity when rejected, ignored
\* (0 here) when exactly zero
Ignored(k) == args.smoothed[k].isvalid /\ args.smoothed[k].score = 0

Rejected(k) == ~args.smoothed[k].isvalid

\* candidate k scores no more than candidate j
NoWorse(k, j) ==
    \/ Rejected(j)
    \/ ~Rejected(k) /\ args.smoothed[k].score <= args.smoothed[j].score

Selected == CHOOSE k \in DOMAIN args.bw_list : args.bw_list[k] = result.bw_opt

Warned == \E i \in DOMAIN result.log : result.log[i].msg = "WARNING"

----------------------------------------------------------------------------
(* Claims about the written .vtk files, checked under SpecVtk *)

\* the scalar column of a result file
ScalarColumn(file) ==
    IF "heri" \in file.cols \/ "image_y2_gc" \in file.cols
    THEN Column(file) ELSE <<>>

\* the template, one block named after the file, and the file's own values
VtkOf(file) ==
    args.temp \o <<ScalarsLine(file.name), LookupTableLine(file.name)>>
    \o [r \in DOMAIN ScalarColumn(file) |-> ValueLine(ScalarColumn(file)[r])]

\* C18: for every file of the results directory whose name ends in the
\* genetic-correlation or heritability suffix, the written .vtk file is the
\* template's lines, "SCALARS <name> float", "LOOKUP_TABLE <name>", then one
\* line per value of that file's scalar column in row order, <name> being
\* the name of that result file, and holds no value of another result file.
C18_VtkBlockPerFile ==
    call.op = "generate_vtk" =>
        \A k \in DOMAIN args.listing :
            LET file == args.listing[k]
            IN (EndsWith(file.name, "gene_cor_y2.txt") \/ EndsWith(file.name, "heri.txt")) =>
                 \E w \in DOMAIN result.written :
                    /\ result.written[w].path = StripTxt(file.name)
                    /\ result.written[w].lines = VtkOf(file)

----------------------------------------------------------------------------
(* Claims about the entry points, checked under SpecCli *)

Trailer == <<"finished", "elapsed">>

EndsIn(log, tail) ==
    Len(log) >= Len(tail) /\ SubSeq(log, Len(log) - Len(tail) + 1, Len(log)) = tail

\* main was called and raised
MainRaised == call.err \in MainOutcomes \ {"none"}

\* C19: in every entry point, when main raises the trace is written to the
\* log, then the trailer, and then the failure propagates; on success the
\* trailer is written exactly once after main returns.
C19_TraceThenTrailer ==
    call.op = "exit" =>
        /\ MainRaised => EndsIn(result, <<"trace">> \o Trailer)
        /\ call.err = "ok" =>
              /\ EndsIn(result, Trailer)
              /\ Count(result, "finished") = 1
              /\ Count(result, "elapsed") = 1

----------------------------------------------------------------------------
(* Claims about merge mode, checked under SpecMakeLd *)

\* what ld.save(out) writes for an LDmatrix object
SavedAs(self, out) == <<[prefix |-> out, data |-> self.data, ld_info |-> self.ld_info]>>

\* C20: in merge mode make_ld reads the list file, fails with an error when
\* it names fewer than two prefixes, and otherwise loads the first prefix,
\* merges the remaining prefixes into it in file order and saves the merged
\* matrix under the output prefix.
C20_MergeMode ==
    (call.op = "make_ld" /\ TruthyStr(args.ld_list)) =>
        IF Len(args.lines) <= 1 THEN call.err # "ok"
        ELSE LET ld == LoadOp(Head(args.lines))
                 merged == MergeOp(ld.self, Tail(args.lines))
             IN IF ld.err # "ok" THEN call.err = ld.err
                ELSE /\ call.err = merged.err
                     /\ merged.err = "ok" => result.saved = SavedAs(merged.self, args.out)

----------------------------------------------------------------------------
(* Claims about build mode, checked under SpecBuild and SpecFindLoc *)

\* C21: the info table of a built matrix has exactly one row per SNP of the
\* stored blocks: its row count is the sum of the block SNP counts and every
\* row carries a block id and an index within its block, also when some SNPs
\* of the genotype file fall in no partition row.
C21_InfoRowPerBlockSnp ==
    (call.op = "build" /\ call.err = "ok") =>
        /\ Len(result.ld_info) = SumSeq(result.num_snps_part)
        /\ Len(result.ld_info) = SumSeq([k \in DOMAIN result.data |-> Len(result.data[k])])
        /\ \A k \in DOMAIN result.ld_info :
              result.ld_info[k].block # None /\ result.ld_info[k].block_idx # None

----------------------------------------------------------------------------
(* Claims about the jackknife, checked under SpecMergeBlocks *)

\* C22: _merge_blocks returns a partition of the block indices 0..n-1 into
\* groups of consecutive indices in ascending order: every block index is in
\* exactly one group, no group is empty, and the last group is always emitted,
\* for every list of positive block sizes.
C22_MergedBlocksPartition ==
    call.op = "_merge_blocks" =>
        /\ \A g \in DOMAIN result : result[g] # <<>>
        /\ Flatten(result) = [k \in 1..Len(args.block_sizes) |-> k - 1]

\* the strict lower triangle, in np.tril_indices order, of the matrix that
\* indexing the dense block of `size` SNPs at idxs x idxs gives
SubTril(size, idxs) ==
    LET dense == Get2dMatrix(size, MkData(<<size>>)[1]).val
    IN [p \in 1..TrilLen(Len(idxs)) |->
          dense[idxs[TrilPair(p - 1)[1] + 1] + 1][idxs[TrilPair(p - 1)[2] + 1] + 1]]

\* C23: for a block of size s >= 2 stored as its strict lower triangle and an
\* ascending index subset of at least two elements, _extract_by_idxs returns
\* the strict lower triangle of the dense block indexed at idxs x idxs; a
\* single index yields an empty array; no offset falls outside the triangle.
C23_ExtractIsSubmatrix ==
    call.op = "_extract_by_idxs" =>
        /\ call.err = "ok"
        /\ \A k \in DOMAIN ExtractOffsets(args.size, args.idxs) :
              /\ 0 <= ExtractOffsets(args.size, args.idxs)[k]
              /\ ExtractOffsets(args.size, args.idxs)[k] < TrilLen(args.size)
        /\ Len(args.idxs) = 1 => result.val.v = <<>>
        /\ (args.size >= 2 /\ Len(args.idxs) >= 2) =>
              result.val.v = SubTril(args.size, args.idxs)

C23_Witness ==
    /\ call.op = "_extract_by_idxs"
    /\ args.size = 4
    /\ args.idxs = <<1, 3>>
    /\ result.val.v = <<<<4, 2>>>>

----------------------------------------------------------------------------
(* Claims about the block bookkeeping of LDmatrix, checked under SpecLD *)

\* block_sizes and block_ranges describe the stored blocks: one entry per
\* block of data, ranges that begin at 0, follow one another and end at the
\* number of info rows, each as long as its block has SNPs
BlockInfoConsistent ==
    /\ Len(block_sizes) = Len(data)
    /\ Len(block_ranges) = Len(data)
    /\ \A k \in DOMAIN block_ranges :
          /\ block_ranges[k][1] = (IF k = 1 THEN 0 ELSE block_ranges[k - 1][2])
          /\ block_ranges[k][2] - block_ranges[k][1] = block_sizes[k]
          /\ k \in DOMAIN data => Len(data[k].v) = TrilLen(block_sizes[k])
    /\ block_ranges # <<>> => block_ranges[Len(block_ranges)][2] = Len(ld_info)

\* C24: after loading and after successful extract and merge calls,
\* block_sizes and block_ranges are flat lists with one entry per stored
\* block, the first range begins at 0, each range begins where the previous
\* one ends and is as long as its block has SNPs, and the last range ends at
\* the number of info rows.  Checked for the matrix as loaded and for the
\* matrix after one successful extract or merge that follows the load.
C24_BlockInfoAfterCalls ==
    [][(\/ call'.op = "load" /\ call'.err = "ok"
        \/ /\ call = [op |-> "load", err |-> "ok"]
           /\ call'.op \in {"extract", "merge"}
           /\ call'.err = "ok")
       => BlockInfoConsistent']_vars

----------------------------------------------------------------------------
(* Claims about the jackknife, checked under SpecJackknife *)

\* every group is one block, and every block's estimate is the total divided
\* by the number k of blocks
EqualBlocks ==
    /\ Len(args.merged_blocks) = Len(args.block_est)
    /\ \A b \in DOMAIN args.block_est :
          Len(args.block_est) * args.block_est[b] = args.total

\* C25, as stated: for block-level estimates all equal to total / k, the
\* jackknife formula (estimate = k*total - (k-1)*mean(lobo), se = sqrt((k-1)/k
\* * sum((lobo - mean(lobo))^2)), lobo from _lobo_estimate) returns estimate
\* equal to total and se equal to 0.
C25_EstimateIsTotal ==
    (call.op = "_jackknife" /\ EqualBlocks) =>
        /\ result.estimate_xk = Len(args.merged_blocks) * args.total
        /\ result.se2_xk3 = 0

\* C25, amended: under the same premise the estimate is total * (2k - 1) / k
\* (k times the estimate is (2k - 1) * total) and se is 0.
C25_EstimateIsScaledTotal ==
    (call.op = "_jackknife" /\ EqualBlocks) =>
        /\ Len(args.merged_blocks) * result.estimate_xk =
              (2 * Len(args.merged_blocks) - 1) * args.total * Len(args.merged_blocks)
        /\ result.se2_xk3 = 0

C25_Witness ==
    /\ call.op = "_jackknife"
    /\ EqualBlocks
    /\ args.total = 3
    /\ Len(args.block_est) = 3
    /\ result = [estimate_xk |-> 15, se2_xk3 |-> 0]

----------------------------------------------------------------------------
(* Claims about find_loc and partition_genome, checked under SpecFindLoc   *)
(* and SpecBuild                                                            *)

\* the 0-based indices of the elements that are <= target
AtMost(num_list, target) == {k - 1 : k \in {j \in DOMAIN num_list : num_list[j] <= target}}

\* C26: for every non-decreasing list of positions (duplicates allowed) and
\* every target, find_loc returns the largest index i with num_list[i] <=
\* target, and -1 when no element is <= target (including the empty list).
C26_FindLocLargestIndex ==
    call.op = "find_loc" =>
        /\ AtMost(args.num_list, args.target) = {} => result = -1
        /\ AtMost(args.num_list, args.target) # {} =>
              /\ result \in AtMost(args.num_list, args.target)
              /\ \A k \in AtMost(args.num_list, args.target) : k <= result

\* the end of the last row before row i (1-based) on row i's chromosome, and
\* -1 when row i is the first row of its chromosome
PrevEnd(part, i) ==
    LET before == {j \in 1..(i - 1) : part[j].chr = part[i].chr}
    IN IF before = {} THEN -1 ELSE part[SortSet(before)[Cardinality(before)]].end

\* the rows of the .bim table that belong to partition row i (1-based): on
\* the row's chromosome, after the previous boundary, at or before the end
SnpsOfRow(bim, part, i) ==
    {k \in DOMAIN bim : /\ bim[k].chr = part[i].chr
                        /\ bim[k].pos > PrevEnd(part, i)
                        /\ bim[k].pos <= part[i].end}

\* the partition rows (1-based) that have SNPs, in order
RowsWithSnps(bim, part) ==
    SortSet({i \in DOMAIN part : SnpsOfRow(bim, part, i) # {}})

\* C27: partition_genome emits, for the partition rows in order, one block
\* per row that has SNPs, with as many SNPs as the row's chromosome has after
\* the previous boundary on that chromosome and at or before the row's end;
\* rows without such SNPs emit nothing; the count starts from the beginning
\* of the chromosome whenever the row is on another chromosome than the
\* previous row; and the block label is written to exactly those SNPs' rows.
C27_PartitionCounts ==
    call.op = "build" =>
        /\ call.err = "ok"
        /\ result.num_snps_part =
              [b \in DOMAIN RowsWithSnps(args.bim, args.part) |->
                 Cardinality(SnpsOfRow(args.bim, args.part,
                                       RowsWithSnps(args.bim, args.part)[b]))]
        /\ \A i \in DOMAIN args.part :
              {k \in DOMAIN result.ld_info : result.ld_info[k].block = <<i - 1>>}
                 = SnpsOfRow(args.bim, args.part, i)

----------------------------------------------------------------------------
(* Claims about successive extracts, checked under SpecLD *)

\* C28: extract pairs every stored block with the info rows of that block
\* also when the block labels are not 0..n-1: extract(S1) then extract(S2)
\* leave the same data, info table and block ranges as the one call
\* extract(S1 intersect S2), and the number of stored blocks always equals
\* the number of distinct block labels of the info table.  Checked for a
\* successful extract(S1) on the matrix as loaded, followed by extract(S2).
C28_ExtractComposes ==
    [][\A S1 \in SUBSET SNPs, S2 \in SUBSET SNPs :
          (/\ call = [op |-> "load", err |-> "ok"]
           /\ Extract(S1)
           /\ call'.err = "ok")
          => /\ Len(data') = Cardinality(Labels(ld_info'))
             /\ ExtractOp(LDObject', S2) = ExtractOp(LDObject, S1 \cap S2)
             /\ Len(ExtractOp(LDObject', S2).self.data) =
                   Cardinality(Labels(ExtractOp(LDObject', S2).self.ld_info))]_vars

----------------------------------------------------------------------------
(* Claims about read_process_data, checked under SpecReadProcess *)

\* C29: after read_process_data has cut everything to the common SNPs, row k
\* of the LDR Z-score matrix, row k of the LD info table and row k of the
\* LD-inverse info table name the same SNP for every k, and the two matrices
\* have the same block ranges.
C29_RowsNameSameSnp ==
    (call.op = "read_process_data" /\ call.err = "ok") =>
        /\ result.z_snps = Col(result.ld.ld_info, "SNP")
        /\ result.z_snps = Col(result.ld_inv.ld_info, "SNP")
        /\ result.ld.block_ranges = result.ld_inv.block_ranges

----------------------------------------------------------------------------
(* Claims about the read cursor of the .bed parser, checked under SpecBED *)

\* C30: a nextSNPs(k) call that raises because fewer than k SNPs remain
\* leaves the read cursor where it was before the call, so that the SNPs that
\* remained can still be read by a later call with a smaller k; and gen_SNPs
\* never moves the nextSNPs cursor.
C30_FailedReadKeepsCursor ==
    [][/\ \A num \in 0..(MaxSnps + 1) :
             (NextSNPs(num) /\ call'.err # "ok") =>
                 /\ _currentSNP' = _currentSNP
                 /\ NextSNPsOp(m - _currentSNP)' =
                       [err |-> "ok", cur |-> m,
                        snps |-> [j \in 1..(m - _currentSNP) |->
                                    DecodeSNP(geno, nru, n, _currentSNP + j - 1)]]
       /\ GenSNPs => _currentSNP' = _currentSNP]_vars

====
